---- MODULE Spec2Model ----
(***************************************************************************)
(* Constellation Engine: ingestion, per-domain agents and the reading-list *)
(* writers, as state machines over the Durable Store (DynamoDB table       *)
(* UnifiedLake) and the Vector Index (Pinecone index "brain-dump").        *)
(*                                                                         *)
(* Every awaited external call is one step of the invocation that issues   *)
(* it; an external call either returns or throws.  Invocations are         *)
(* independent Lambda executions and interleave freely.                    *)
(***************************************************************************)
EXTENDS Integers, Sequences, FiniteSets, TLC

(***************************************************************************)
(* Bounds of the model.                                                    *)
(***************************************************************************)
\* Highest value of the wall clock (Date.now()).
MaxClock == 1

\* Concurrent Lambda invocations.
Reqs == {1, 2}

\* Owner identities (JWT claim sub).
Users == {"u1", "u2"}

\* The texts users send; a reading-log entry stands for the book it names.
RawInputs == {"Dune", "Emma"}

\* What the router puts in its own content field: always a rewording.
RouterContents == {"summary"}

None == "none"
Absent == "undefined"

VARIABLES
    pc,      \* pc[r]: the await the invocation r is suspended at
    loc,     \* loc[r]: the local variables of invocation r
    resp,    \* resp[r]: the value invocation r returned
    store,   \* Durable Store: <<PK, SK>> -> item
    index,   \* Vector Index: <<namespace, id>> -> [values, metadata]
    clock,   \* wall clock
    log,     \* per invocation, the external writes it issued, in order
    archive, \* Archival Blob Store: path -> file content
    feed     \* change feed of the Durable Store: the records not yet consumed

vars == <<pc, loc, resp, store, index, clock, log, archive, feed>>

(***************************************************************************)
(* Storage services.                                                       *)
(***************************************************************************)
UserPK(userId) == <<"USER", userId>>
EntrySK(id) == <<"ENTRY", id>>
DashboardPKOf(name) == <<"DASHBOARD", name>>
DASHBOARD_SK == <<"STATE">>

\* PutCommand: the item replaces whatever is under its key.
\* A conditional put, which leaves an item that exists as it is.
PutItemIfAbsent(st, pk, sk, item) ==
    IF <<pk, sk>> \in DOMAIN st
    THEN st
    ELSE [k \in DOMAIN st \cup {<<pk, sk>>} |-> IF k = <<pk, sk>> THEN item ELSE st[k]]

PutItem(st, pk, sk, item) ==
    [k \in DOMAIN st \cup {<<pk, sk>>} |-> IF k = <<pk, sk>> THEN item ELSE st[k]]

\* GetCommand: the item under the key, or nothing.
NoItem == [type |-> "Missing"]
GetItem(st, pk, sk) == IF <<pk, sk>> \in DOMAIN st THEN st[<<pk, sk>>] ELSE NoItem

\* index.namespace(ns).upsert([{id, values, metadata}])
Upsert(ix, ns, id, values, metadata) ==
    [k \in DOMAIN ix \cup {<<ns, id>>} |->
        IF k = <<ns, id>> THEN [values |-> values, metadata |-> metadata] ELSE ix[k]]

\* embeddingModel.embedContent(content): a function of the text alone.
getEmbedding(content) == <<"vec", content>>

\* KSUID.random(): 128 random bits, one per invocation.
KSUID(r) == <<"ksuid", r>>

(***************************************************************************)
(* Local variables of an invocation.                                       *)
(***************************************************************************)
NoRouterOutput == [intent |-> Absent, content |-> Absent, mediaType |-> Absent]

NoLoc ==
    [handler |-> None, userId |-> None, rawInput |-> None, ro |-> NoRouterOutput,
     id |-> None, now |-> 0, finalContent |-> None, vector |-> None,
     contextIds |-> <<>>, sources |-> <<>>, missing |-> <<>>,
     existing |-> NoItem, newDoc |-> <<>>, records |-> <<>>, at |-> 0]

\* The handler returns: its locals are gone, its response is what is left.
Return(r, response) ==
    /\ pc' = [pc EXCEPT ![r] = "done"]
    /\ resp' = [resp EXCEPT ![r] = response]
    /\ loc' = [loc EXCEPT ![r] = NoLoc]
\* The handler goes on to its next await with the locals f.
Step(r, label, f) ==
    /\ pc' = [pc EXCEPT ![r] = label]
    /\ loc' = [loc EXCEPT ![r] = f]
    /\ UNCHANGED resp
\* What the invocation has just done to the outside: a completed write
\* ("store", "index", "dashboard" with the document written), a write that
\* threw ("store_failed", "index_failed"), a failed synthesis
\* ("synth_failed"), a reply of the router that breaks its schema
\* ("invalid_reply"), a rejected fan-out of the query ("query_failed"), a
\* failed answer synthesis of the query ("answer_failed"), retrieval calls
\* of the recommendation job that failed ("branch_failed") or a file of the
\* archive written or failed to be written ("archive", "archive_failed").
\* Each event carries the handler and the user it acted for.
Logged(r, op, doc) ==
    log' = [log EXCEPT ![r] = Append(@, [op |-> op, by |-> loc[r].handler,
                                          user |-> loc[r].userId, doc |-> doc])]

\* Invocations are interchangeable: they are numbered in the order they begin.
Begins(r) == pc[r] = "idle" /\ \A q \in Reqs : q < r => pc[q] # "idle"

Tick ==
    /\ clock < MaxClock
    /\ clock' = clock + 1
    /\ UNCHANGED <<pc, loc, resp, store, index, log>>
    /\ UNCHANGED <<archive, feed>>

(***************************************************************************)
(* src/ingest.ts: the unified ingestion endpoint.                          *)
(***************************************************************************)
\* What the routing model can answer: a JSON object, which need not match
\* IntentRouterOutput, or text that is no JSON at all.
Intents == {"save", "query", "log_reading"}
MediaTypes == {"text", "audio", "image"}

RouterObjects ==
    [intent : Intents \cup {Absent},
     content : RouterContents,
     mediaType : {"text", "audio", Absent}]

SchemaValid(ro) == ro.intent \in Intents /\ ro.mediaType \in MediaTypes

\* A reply is the text of a JSON object (json) or some other text, with or
\* without a ```json fence around it.
RouterReplies ==
    [fenced : BOOLEAN, json : BOOLEAN, value : RouterObjects]

\* result.response.text().replace(/```json\n?|\n?```/g, '').trim()
StripJsonFence(reply) == [reply EXCEPT !.fenced = FALSE]

\* JSON.parse(responseText) as IntentRouterOutput: a cast, no validation.
\* It throws on text that is not JSON, and on text still inside a fence.
JsonParses(text) == text.json /\ ~text.fenced
JsonParse(text) == text.value

\* A handler without the query branch: every request is saved.
NeverQueryBranch(ro) == FALSE

IsQueryBranch(ro) == ro.intent = "query"

\* A handler that stores what the router returned, whatever the media type.
FinalContentFromRouter(rawInput, ro) == ro.content

FinalContent(rawInput, ro) ==
    IF ro.mediaType = "text" \/ ro.mediaType = Absent
    THEN rawInput
    ELSE ro.content

IngestRecord(userId, id, now, finalContent, ro) ==
    [type |-> "Entry", id |-> id, createdAt |-> now, updatedAt |-> now,
     content |-> finalContent, mediaType |-> ro.mediaType, userId |-> userId]

IngestMetadata(userId, id, now, ro) ==
    [id |-> id, userId |-> userId, mediaType |-> ro.mediaType,
     createdAt |-> now, text |-> Absent]

Status(code, message) == [statusCode |-> code, message |-> message, id |-> None,
                          sources |-> <<>>, answer |-> None, error |-> None]
NoResp == Status(0, None)

\* Lines 22-35: authentication and body checks.
IngestReceive(r) ==
    /\ Begins(r)
    /\ \E userId \in Users \cup {Absent}, rawInput \in RawInputs \cup {""} :
        IF userId = Absent
        THEN Return(r, Status(401, "Unauthorized"))
        ELSE IF rawInput = ""
        THEN Return(r, Status(400, "Content is required."))
        ELSE Step(r, "classify", [NoLoc EXCEPT !.handler = "ingest",
                                   !.userId = userId, !.rawInput = rawInput])
    /\ UNCHANGED <<store, index, clock, log>>
    /\ UNCHANGED <<archive, feed>>

\* The message of the error thrown by the call awaited at label: it names
\* the service that failed, whichever of the handler's calls to it that was.
ThrownAt(label) ==
    CASE label \in {"classify", "embed", "q_embed", "q_answer", "rl_gen",
                    "a_embed", "a_synth"} -> "GoogleGenerativeAI error"
      [] label \in {"put", "q_batchget", "rl_get", "rl_put",
                    "a_recent", "a_save", "a_getdash", "a_savedash"} -> "DynamoDB error"
      [] label \in {"upsert", "q_search", "a_upsert", "a_recall"} -> "Pinecone error"
      [] OTHER -> "Error"

\* The body of a 500: a fixed message and the message of what was thrown.
ErrorResponse(message, error) == [Status(500, message) EXCEPT !.error = error]

\* Lines 229-235: whatever is thrown inside the handler becomes a 500.
IngestError(r) ==
    Return(r, ErrorResponse("Internal Server Error", ThrownAt(pc[r])))

\* Lines 37-41 and the branch at 46, with the record prepared at 151-177.
IngestClassify(r) ==
    /\ pc[r] = "classify"
    /\ \/ \* generateContent throws, or times out
          /\ IngestError(r)
          /\ UNCHANGED log
       \/ \E reply \in RouterReplies :
            LET text == StripJsonFence(reply) IN
            IF ~JsonParses(text)
            THEN /\ Return(r, ErrorResponse("Internal Server Error", "SyntaxError"))
                 /\ UNCHANGED log
            ELSE LET routerOutput == JsonParse(text) IN
                 /\ IF SchemaValid(routerOutput)
                    THEN UNCHANGED log
                    ELSE Logged(r, "invalid_reply", <<>>)
                 /\ IF IsQueryBranch(routerOutput)
                    THEN Step(r, "q_embed", [loc[r] EXCEPT !.ro = routerOutput])
                    ELSE Step(r, "put", [loc[r] EXCEPT
                            !.ro = routerOutput, !.id = KSUID(r), !.now = clock,
                            !.finalContent = FinalContent(loc[r].rawInput, routerOutput)])
    /\ UNCHANGED <<store, index, clock>>
    /\ UNCHANGED <<archive, feed>>

\* Lines 179-183: PutCommand of the entry.
IngestPut(r) ==
    /\ pc[r] = "put"
    /\ \/ /\ store' = PutItem(store, UserPK(loc[r].userId), EntrySK(loc[r].id),
                        IngestRecord(loc[r].userId, loc[r].id, loc[r].now,
                                     loc[r].finalContent, loc[r].ro))
          /\ Logged(r, "store", <<>>)
          /\ Step(r, "embed", loc[r])
       \/ /\ IngestError(r)
          /\ Logged(r, "store_failed", <<>>)
          /\ UNCHANGED store
    /\ UNCHANGED <<index, clock>>
    /\ UNCHANGED <<archive, feed>>

\* Line 186: the embedding of the router's content.
IngestEmbed(r) ==
    /\ pc[r] = "embed"
    /\ \/ Step(r, "upsert", [loc[r] EXCEPT !.vector = getEmbedding(loc[r].ro.content)])
       \/ IngestError(r)
    /\ UNCHANGED <<store, index, clock, log>>
    /\ UNCHANGED <<archive, feed>>

\* Lines 188-227: upsert into the default namespace, then the response.
IngestUpsert(r) ==
    /\ pc[r] = "upsert"
    /\ \/ /\ index' = Upsert(index, "", loc[r].id, loc[r].vector,
                        IngestMetadata(loc[r].userId, loc[r].id, loc[r].now, loc[r].ro))
          /\ Logged(r, "index", <<>>)
          /\ IF loc[r].ro.intent = "log_reading"
             THEN Step(r, "rl_get", loc[r])
             ELSE Return(r, [Status(200, "Ingested successfully") EXCEPT !.id = loc[r].id])
       \/ /\ IngestError(r)
          /\ Logged(r, "index_failed", <<>>)
          /\ UNCHANGED index
    /\ UNCHANGED <<store, clock>>
    /\ UNCHANGED <<archive, feed>>

(***************************************************************************)
(* Markdown documents are sequences of tokens: a heading, a list item, a   *)
(* code-fence marker or a run of white space.                              *)
(***************************************************************************)
\* The markers ```markdown and ```.
FenceMd == "fence:markdown"
Fence == "fence"
Ws == "ws"

Wrapped(doc) == <<FenceMd, Ws>> \o doc \o <<Ws, Fence>>

RECURSIVE SelectTokens(_, _)
SelectTokens(doc, keep) ==
    IF doc = <<>> THEN <<>>
    ELSE IF Head(doc) \in keep
    THEN <<Head(doc)>> \o SelectTokens(Tail(doc), keep)
    ELSE SelectTokens(Tail(doc), keep)

Tokens(doc) == {doc[i] : i \in 1..Len(doc)}

RECURSIVE TrimLeft(_)
TrimLeft(doc) ==
    IF doc # <<>> /\ Head(doc) = Ws THEN TrimLeft(Tail(doc)) ELSE doc

RECURSIVE TrimRight(_)
TrimRight(doc) ==
    IF doc # <<>> /\ doc[Len(doc)] = Ws
    THEN TrimRight(SubSeq(doc, 1, Len(doc) - 1))
    ELSE doc

\* The position of the first occurrence of a token, 0 when it is absent.
RECURSIVE IndexOfFrom(_, _, _)
IndexOfFrom(doc, token, i) ==
    IF i > Len(doc) THEN 0
    ELSE IF doc[i] = token THEN i
    ELSE IndexOfFrom(doc, token, i + 1)
IndexOf(doc, token) == IndexOfFrom(doc, token, 1)

\* The items that follow a heading, up to the next heading.
RecoveredMemories == "## Recovered Memories"
Headings == {"## Top Recommendations", "## Current Reading", "## Archive",
             "# Recommendations", RecoveredMemories}
RECURSIVE ItemsFrom(_, _)
ItemsFrom(doc, i) ==
    IF i > Len(doc) \/ doc[i] \in Headings THEN <<>>
    ELSE <<doc[i]>> \o ItemsFrom(doc, i + 1)
Section(doc, heading) ==
    IF IndexOf(doc, heading) = 0 THEN <<>>
    ELSE ItemsFrom(doc, IndexOf(doc, heading) + 1)
HasSection(doc, heading) == IndexOf(doc, heading) # 0

(***************************************************************************)
(* src/ingest.ts, branch A: the query.                                     *)
(***************************************************************************)
Namespaces == <<"", "biography", "dreams", "fiction", "lyrics", "ideas">>

\* Similarity of a stored vector to the query vector, as the index scores it.
Score(queryVector, values) == IF queryVector = values THEN 2 ELSE 1

PassesFilter(metadata, filter) ==
    filter = Absent \/ metadata.userId = filter

\* The stored vectors of one namespace that pass the metadata filter.
Candidates(ix, ns, filter) ==
    {k \in DOMAIN ix : k[1] = ns /\ PassesFilter(ix[k].metadata, filter)}

Match(ix, k, queryVector) ==
    [id |-> k[2], score |-> Score(queryVector, ix[k].values),
     metadata |-> ix[k].metadata, namespace |-> k[1]]

\* Ranked by score, the better first; a tie is left in id order.
Better(ix, queryVector, a, b) ==
    \/ Score(queryVector, ix[a].values) > Score(queryVector, ix[b].values)
    \/ /\ Score(queryVector, ix[a].values) = Score(queryVector, ix[b].values)
       /\ a[2][2] < b[2][2]

RECURSIVE Ranked(_, _, _)
Ranked(ix, queryVector, keys) ==
    IF keys = {} THEN <<>>
    ELSE LET best == CHOOSE a \in keys :
                        \A b \in keys \ {a} : Better(ix, queryVector, a, b)
         IN <<Match(ix, best, queryVector)>> \o Ranked(ix, queryVector, keys \ {best})

FirstN(seq, n) == SubSeq(seq, 1, IF Len(seq) < n THEN Len(seq) ELSE n)

\* pineconeNamespace.query({vector, topK, filter, includeMetadata: true})
queryPinecone(ix, queryVector, topK, ns, filter) ==
    FirstN(Ranked(ix, queryVector, Candidates(ix, ns, filter)), topK)

\* The topK of each namespace query and the cap of the fused list.
QueryTopK == 5
RecallCap == 15

RECURSIVE Flat(_, _, _, _)
Flat(ix, queryVector, filter, i) ==
    IF i > Len(Namespaces) THEN <<>>
    ELSE queryPinecone(ix, queryVector, QueryTopK, Namespaces[i], filter)
            \o Flat(ix, queryVector, filter, i + 1)

\* A fusion that leaves the hits in the order of the fan-out.
Unsorted(matches) == matches

\* allMatches.sort((a, b) => b.score - a.score): a stable insertion sort.
RECURSIVE InsertByScore(_, _)
InsertByScore(sorted, m) ==
    IF sorted = <<>> THEN <<m>>
    ELSE IF Head(sorted).score >= m.score
    THEN <<Head(sorted)>> \o InsertByScore(Tail(sorted), m)
    ELSE <<m>> \o sorted

RECURSIVE SortByScore(_)
SortByScore(matches) ==
    IF matches = <<>> THEN <<>>
    ELSE InsertByScore(SortByScore(SubSeq(matches, 1, Len(matches) - 1)),
                       matches[Len(matches)])

SortedMatches(ix, queryVector, userId) ==
    FirstN(SortByScore(Flat(ix, queryVector, userId, 1)), RecallCap)

\* sortedMatches.map(m => m.id)
RECURSIVE IdsOf(_)
IdsOf(matches) ==
    IF matches = <<>> THEN <<>>
    ELSE <<Head(matches).id>> \o IdsOf(Tail(matches))

HasText(m) == m.metadata.text # Absent

RECURSIVE IdsWhere(_, _)
IdsWhere(matches, withText) ==
    IF matches = <<>> THEN <<>>
    ELSE IF HasText(Head(matches)) = withText
    THEN <<Head(matches).id>> \o IdsWhere(Tail(matches), withText)
    ELSE IdsWhere(Tail(matches), withText)

\* BatchGetCommand: the ids whose entry is in the owner's partition.
RECURSIVE FoundItems(_, _, _)
FoundItems(st, userId, ids) ==
    IF ids = <<>> THEN <<>>
    ELSE IF <<UserPK(userId), EntrySK(Head(ids))>> \in DOMAIN st
    THEN <<Head(ids)>> \o FoundItems(st, userId, Tail(ids))
    ELSE FoundItems(st, userId, Tail(ids))

\* Line 50.
QueryEmbed(r) ==
    /\ pc[r] = "q_embed"
    /\ \/ Step(r, "q_search", [loc[r] EXCEPT !.vector = getEmbedding(loc[r].ro.content)])
       \/ IngestError(r)
    /\ UNCHANGED <<store, index, clock, log>>
    /\ UNCHANGED <<archive, feed>>

\* Lines 52-93: the fan-out over the namespaces, joined by Promise.all.
QuerySearch(r) ==
    /\ pc[r] = "q_search"
    /\ \/ /\ LET sortedMatches == SortedMatches(index, loc[r].vector, loc[r].userId)
                 missing == IdsWhere(sortedMatches, FALSE)
             IN Step(r, IF missing # <<>> THEN "q_batchget" ELSE "q_answer",
                  [loc[r] EXCEPT
                     !.contextIds = IdsOf(sortedMatches),
                     !.sources = IdsWhere(sortedMatches, TRUE),
                     !.missing = missing])
          /\ UNCHANGED log
       \/ \* Promise.all rejects as soon as one namespace query rejects
          /\ IngestError(r)
          /\ Logged(r, "query_failed", <<>>)
    /\ UNCHANGED <<store, index, clock>>
    /\ UNCHANGED <<archive, feed>>

\* Lines 95-125: a failed BatchGet is logged and the query goes on.
QueryBatchGet(r) ==
    /\ pc[r] = "q_batchget"
    /\ \/ Step(r, "q_answer", [loc[r] EXCEPT
                !.sources = @ \o FoundItems(store, loc[r].userId, loc[r].missing),
                !.missing = <<>>])
       \/ Step(r, "q_answer", [loc[r] EXCEPT !.missing = <<>>])
    /\ UNCHANGED <<store, index, clock, log>>
    /\ UNCHANGED <<archive, feed>>

\* Lines 127-131: the context of the answer is the contributed entries, or
\* the no-evidence text when there are none.
NoContextText == "No relevant context found."
RagContext(contextSources) ==
    IF contextSources = <<>> THEN NoContextText ELSE "entries"
\* Lines 133-134: the answer of the generation oracle to that prompt.
RagAnswer(context) ==
    IF context = NoContextText THEN "answer without evidence"
    ELSE "answer from entries"

\* A handler that takes a query without matches for an error.
QueryResponseRejectingEmpty(contextSources) ==
    IF contextSources = <<>> THEN Status(404, "No matches")
    ELSE [Status(200, "Query processed") EXCEPT
            !.sources = contextSources,
            !.answer = RagAnswer(RagContext(contextSources))]

\* Lines 136-144.
QueryResponse(contextSources) ==
    [Status(200, "Query processed") EXCEPT
        !.sources = contextSources,
        !.answer = RagAnswer(RagContext(contextSources))]

\* Lines 127-144.
QueryAnswer(r) ==
    /\ pc[r] = "q_answer"
    /\ \/ /\ Return(r, QueryResponse(loc[r].sources))
          /\ UNCHANGED log
       \/ /\ IngestError(r)
          /\ Logged(r, "answer_failed", <<>>)
    /\ UNCHANGED <<store, index, clock>>
    /\ UNCHANGED <<archive, feed>>

(***************************************************************************)
(* src/librarian/logBook.ts: updateReadingList.                            *)
(***************************************************************************)
READING_LIST_PK == DashboardPKOf("reading_list")

INITIAL_READING_LIST ==
    <<"## Top Recommendations", "## Current Reading", "[Placeholder]", "## Archive">>

\* logBook's own sanitizeMarkdown: every fence marker goes, then trim().
sanitizeLogBook(text) ==
    TrimRight(TrimLeft(SelectTokens(text, Tokens(text) \ {FenceMd, Fence})))

\* The instructions of the prompt, followed to the letter: the book of the
\* log entry is added under Current Reading, every other token is returned
\* as it was given.
LibrarianRewrite(currentContent, newLog) ==
    LET at == IndexOf(currentContent, "## Current Reading") IN
    IF at = 0
    THEN currentContent \o <<"## Current Reading", newLog>>
    ELSE SubSeq(currentContent, 1, at) \o <<newLog>>
            \o SubSeq(currentContent, at + 1, Len(currentContent))

\* What the generation oracle can return for a rewrite whose faithful
\* result is doc: doc, doc inside a code fence, or nothing.
OracleTexts(doc) == {doc, Wrapped(doc), <<>>}

DashboardRecord(name, createdAt, now, content) ==
    [type |-> "Dashboard", id |-> name, createdAt |-> createdAt,
     updatedAt |-> now, content |-> content, mediaType |-> "text"]

IsPresent(item) == item.type # "Missing"
HasContent(item) == IsPresent(item) /\ item.content # <<>>

\* Returns to the caller of updateReadingList: ingest.ts line 207.
ReadingListDone(r) ==
    Return(r, [Status(200, "Reading log updated successfully") EXCEPT !.id = loc[r].id])

\* Lines 36-48.
ReadingListGet(r) ==
    /\ pc[r] = "rl_get"
    /\ \/ Step(r, "rl_gen", [loc[r] EXCEPT
                !.existing = GetItem(store, READING_LIST_PK, DASHBOARD_SK),
                !.now = clock])
       \/ IngestError(r)
    /\ UNCHANGED <<store, index, clock, log>>
    /\ UNCHANGED <<archive, feed>>

\* Lines 50-83.
ReadingListGenerate(r) ==
    /\ pc[r] = "rl_gen"
    /\ \/ LET currentContent == IF HasContent(loc[r].existing)
                                THEN loc[r].existing.content
                                ELSE INITIAL_READING_LIST
          IN \E text \in OracleTexts(LibrarianRewrite(currentContent, loc[r].finalContent)) :
                /\ Step(r, "rl_put", [loc[r] EXCEPT !.newDoc = sanitizeLogBook(text)])
                /\ UNCHANGED log
       \/ /\ IngestError(r)
          /\ Logged(r, "synth_failed", <<>>)
    /\ UNCHANGED <<store, index, clock>>
    /\ UNCHANGED <<archive, feed>>

\* Lines 85-107.
ReadingListPut(r) ==
    /\ pc[r] = "rl_put"
    /\ \/ LET createdAt == IF HasContent(loc[r].existing)
                           THEN loc[r].existing.createdAt
                           ELSE loc[r].now
          IN /\ store' = PutItem(store, READING_LIST_PK, DASHBOARD_SK,
                            DashboardRecord("reading_list", createdAt, clock, loc[r].newDoc))
             /\ Logged(r, "dashboard", loc[r].newDoc)
             /\ ReadingListDone(r)
       \/ /\ IngestError(r)
          /\ UNCHANGED <<store, log>>
    /\ UNCHANGED <<index, clock>>
    /\ UNCHANGED <<archive, feed>>

(***************************************************************************)
(* The per-domain agents: src/philosopher.ts, biographer.ts, fiction.ts,   *)
(* lyrics.ts and the dream-logging branch of librarian/dreamer.ts.  They   *)
(* are one sequence of awaits over different constants.                    *)
(***************************************************************************)
Agents == {"philosopher", "biographer", "fiction", "lyrics", "dreamer"}

AgentNamespace(a) ==
    CASE a = "philosopher" -> "ideas"
      [] a = "biographer" -> "biography"
      [] a = "fiction" -> "fiction"
      [] a = "lyrics" -> "lyrics"
      [] a = "dreamer" -> "dreams"

AgentDashboard(a) ==
    CASE a = "philosopher" -> "idea_garden"
      [] a = "biographer" -> "life_log"
      [] a = "fiction" -> "story_bible"
      [] a = "lyrics" -> "song_seeds"
      [] a = "dreamer" -> "dream_analysis"

\* The document the synthesis starts from when no dashboard is stored.
AgentTemplate(a) ==
    CASE a = "philosopher" -> <<"# The Idea Garden">>
      [] a = "biographer" -> <<"# Life Log">>
      [] a = "fiction" -> <<"# Story Bible">>
      [] a = "lyrics" -> <<"# Song Seeds">>
      [] a = "dreamer" -> <<>>

\* idea-${timestamp}, biography-${date.getTime()}, or a KSUID.
AgentEntryId(a, r, timestamp) ==
    CASE a = "philosopher" -> <<"idea", timestamp>>
      [] a = "biographer" -> <<"biography", timestamp>>
      [] OTHER -> KSUID(r)

\* The owner filter of the recall query: only the dreamer passes one, and
\* only when the request names a user.
AgentRecallFilter(a, userId) ==
    IF a = "dreamer" /\ userId # "system" THEN userId ELSE Absent

AgentTopK(a) ==
    CASE a = "fiction" -> 10
      [] a = "lyrics" -> 15
      [] OTHER -> 5

\* The worker of the biographer is invoked asynchronously and returns nothing.
IsWorker(a) == a = "biographer"

AgentEntryRecord(userId, id, isoDate, content) ==
    [type |-> "Entry", id |-> id, createdAt |-> isoDate, updatedAt |-> isoDate,
     content |-> content, mediaType |-> "text", userId |-> userId]

AgentMetadata(userId, id, isoDate, content) ==
    [id |-> id, userId |-> userId, mediaType |-> "text",
     createdAt |-> isoDate, text |-> content]

\* utils.ts sanitizeMarkdown: a leading ```markdown or ``` with the white
\* space after it, and a trailing ``` with the white space before it.
StripLeading(text, marker) ==
    IF Len(text) >= 2 /\ text[1] = marker /\ text[2] = Ws
    THEN TrimLeft(SubSeq(text, 3, Len(text)))
    ELSE text
StripTrailing(text) ==
    IF Len(text) >= 2 /\ text[Len(text)] = Fence /\ text[Len(text) - 1] = Ws
    THEN TrimRight(SubSeq(text, 1, Len(text) - 2))
    ELSE text
sanitizeMarkdown(markdown) ==
    StripTrailing(StripLeading(StripLeading(markdown, FenceMd), Fence))

\* The instructions of the agents' prompts, followed to the letter: the new
\* entry is worked into the current document and the rest is reproduced;
\* without a new entry (the refresh) nothing is added.
AgentRewrite(currentContent, content) ==
    IF content = "" THEN currentContent ELSE currentContent \o <<content>>

\* The catch block of the handler: a 500, or nothing from the worker.
\* A handler that swallows a failed synthesis and persists an empty result.
AgentErrorPersistsEmpty(r) ==
    IF pc[r] = "a_synth"
    THEN Step(r, "a_savedash", [loc[r] EXCEPT !.newDoc = <<>>])
    ELSE IF IsWorker(loc[r].handler)
         THEN Return(r, Status(0, "worker failed"))
         ELSE Return(r, ErrorResponse("An error occurred.", ThrownAt(pc[r])))

AgentError(r) ==
    IF IsWorker(loc[r].handler)
    THEN Return(r, Status(0, "worker failed"))
    ELSE Return(r, ErrorResponse("An error occurred.", ThrownAt(pc[r])))

\* Authentication, body and content checks.
AgentReceive(r) ==
    /\ Begins(r)
    /\ \E a \in Agents, userId \in Users \cup {Absent}, apiKey \in BOOLEAN,
          content \in RawInputs \cup {"", Absent} :
        LET user == IF userId = Absent
                    THEN (IF a = "dreamer" THEN "system" ELSE "default-user")
                    ELSE userId
            start == [NoLoc EXCEPT !.handler = a, !.userId = user,
                                   !.rawInput = IF content = Absent THEN "" ELSE content]
        IN
        IF IsWorker(a)
        THEN \* part_013 lines 42-52: the date of the event, or now
             \E date \in 0..clock :
                Step(r, "a_recent", [start EXCEPT !.now = date,
                        !.id = AgentEntryId(a, r, date)])
        ELSE IF a = "dreamer"
        THEN \* the branch with no content is the serendipity engine
             /\ content \in RawInputs
             /\ Step(r, "a_embed", start)
        ELSE IF a # "philosopher" /\ content = ""
        THEN FALSE
        ELSE IF userId = Absent /\ ~apiKey
        THEN Return(r, Status(401, "Unauthorized"))
        ELSE IF content = Absent
        THEN Return(r, Status(400, "Request body is empty."))
        ELSE IF a = "philosopher" /\ content = ""
        THEN Return(r, Status(400, "Content is required."))
        ELSE Step(r, "a_embed", start)
    /\ UNCHANGED <<store, index, clock, log>>
    /\ UNCHANGED <<archive, feed>>

\* A worker that embeds, projects and stores whatever content it is given.
HasNewEntryAlways(content) == TRUE

\* part_013 line 70: if (content), the block that embeds, projects and stores
\* the entry; a refresh carries no content and skips it.
HasNewEntry(content) == content # ""

\* part_013 line 52: the recent history, read for the prompt.
AgentRecent(r) ==
    /\ pc[r] = "a_recent"
    /\ \/ Step(r, IF HasNewEntry(loc[r].rawInput) THEN "a_embed" ELSE "a_getdash", loc[r])
       \/ AgentError(r)
    /\ UNCHANGED <<store, index, clock, log>>
    /\ UNCHANGED <<archive, feed>>

\* getEmbedding, then Date.now() and the id of the entry.
AgentEmbed(r) ==
    /\ pc[r] = "a_embed"
    /\ \/ LET a == loc[r].handler IN
          Step(r, "a_upsert", [loc[r] EXCEPT
                !.vector = getEmbedding(loc[r].rawInput),
                !.now = IF IsWorker(a) THEN @ ELSE clock,
                !.id = IF IsWorker(a) THEN @ ELSE AgentEntryId(a, r, clock)])
       \/ AgentError(r)
    /\ UNCHANGED <<store, index, clock, log>>
    /\ UNCHANGED <<archive, feed>>

\* upsertToPinecone into the namespace of the domain.
AgentUpsert(r) ==
    /\ pc[r] = "a_upsert"
    /\ \/ /\ index' = Upsert(index, AgentNamespace(loc[r].handler), loc[r].id,
                        loc[r].vector,
                        AgentMetadata(loc[r].userId, loc[r].id, loc[r].now,
                                      loc[r].rawInput))
          /\ Logged(r, "index", <<>>)
          /\ Step(r, "a_save", loc[r])
       \/ /\ AgentError(r)
          /\ Logged(r, "index_failed", <<>>)
          /\ UNCHANGED index
    /\ UNCHANGED <<store, clock>>
    /\ UNCHANGED <<archive, feed>>

\* saveRecord(entryRecord)
AgentSave(r) ==
    /\ pc[r] = "a_save"
    /\ \/ /\ store' = PutItem(store, UserPK(loc[r].userId), EntrySK(loc[r].id),
                        AgentEntryRecord(loc[r].userId, loc[r].id, loc[r].now,
                                         loc[r].rawInput))
          /\ Logged(r, "store", <<>>)
          /\ Step(r, "a_recall", loc[r])
       \/ /\ AgentError(r)
          /\ Logged(r, "store_failed", <<>>)
          /\ UNCHANGED store
    /\ UNCHANGED <<index, clock>>
    /\ UNCHANGED <<archive, feed>>

\* queryPinecone for the context of the prompt.
AgentRecall(r) ==
    /\ pc[r] = "a_recall"
    /\ \/ LET a == loc[r].handler
              similar == queryPinecone(index, loc[r].vector, AgentTopK(a),
                            AgentNamespace(a), AgentRecallFilter(a, loc[r].userId))
          IN /\ Len(similar) <= AgentTopK(a)
             /\ Step(r, "a_getdash", loc[r])
       \/ AgentError(r)
    /\ UNCHANGED <<store, index, clock, log>>
    /\ UNCHANGED <<archive, feed>>

\* getRecord(DASHBOARD_PK, DASHBOARD_SK)
AgentGetDashboard(r) ==
    /\ pc[r] = "a_getdash"
    /\ \/ Step(r, "a_synth", [loc[r] EXCEPT
                !.existing = GetItem(store, DashboardPKOf(AgentDashboard(loc[r].handler)),
                                     DASHBOARD_SK)])
       \/ AgentError(r)
    /\ UNCHANGED <<store, index, clock, log>>
    /\ UNCHANGED <<archive, feed>>

\* The current dashboard handed to the synthesis: the stored content, or
\* the initial content of the handler when there is none.
AgentCurrentContent(a, existing) ==
    IF HasContent(existing) THEN existing.content ELSE AgentTemplate(a)

\* generateContent and sanitizeMarkdown.
AgentSynthesize(r) ==
    /\ pc[r] = "a_synth"
    /\ \/ LET a == loc[r].handler
              currentContent == AgentCurrentContent(a, loc[r].existing)
          IN \E text \in OracleTexts(AgentRewrite(currentContent, loc[r].rawInput)) :
                /\ Step(r, "a_savedash", [loc[r] EXCEPT !.newDoc = sanitizeMarkdown(text)])
                /\ UNCHANGED log
       \/ /\ AgentError(r)
          /\ Logged(r, "synth_failed", <<>>)
    /\ UNCHANGED <<store, index, clock>>
    /\ UNCHANGED <<archive, feed>>

\* saveRecord(dashboardRecord) and the response.
AgentSaveDashboard(r) ==
    /\ pc[r] = "a_savedash"
    /\ \/ LET a == loc[r].handler
              createdAt == IF IsPresent(loc[r].existing)
                           THEN loc[r].existing.createdAt
                           ELSE loc[r].now
          IN /\ store' = PutItem(store, DashboardPKOf(AgentDashboard(a)), DASHBOARD_SK,
                            DashboardRecord(AgentDashboard(a), createdAt, loc[r].now,
                                            loc[r].newDoc))
             /\ Logged(r, "dashboard", loc[r].newDoc)
             /\ IF IsWorker(a)
                THEN Return(r, Status(0, "worker completed"))
                ELSE Return(r, Status(200, "processed"))
       \/ /\ AgentError(r)
          /\ UNCHANGED <<store, log>>
    /\ UNCHANGED <<index, clock>>
    /\ UNCHANGED <<archive, feed>>

NextAgents ==
    \/ Tick
    \/ \E r \in Reqs :
        \/ AgentReceive(r)
        \/ AgentRecent(r)
        \/ AgentEmbed(r)
        \/ AgentUpsert(r)
        \/ AgentSave(r)
        \/ AgentRecall(r)
        \/ AgentGetDashboard(r)
        \/ AgentSynthesize(r)
        \/ AgentSaveDashboard(r)

(***************************************************************************)
(* The recommendation workflow (sst.config.ts, DialecticalLibrarian): its  *)
(* last two states, SynthesizeInsights and PersistRecommendations.         *)
(***************************************************************************)
NoResultsText == <<"## No new recommendations were found in this run.">>
SkipPhrase == "No new book recommendations"

\* What the generation oracle can return for the recommendations: it is
\* given the books, the articles and the recent entries, not the dashboard.
RecommendationTexts == OracleTexts(<<"rec:Book">>) \cup {<<SkipPhrase>>}

\* synthesizeInsights.ts line 147: the header, then the oracle's text.
FinalMarkdown(markdownOutput) == <<"# Recommendations">> \o markdownOutput

\* persistRecs.ts line 13
SkipsPersist(markdownContent) ==
    markdownContent = <<>> \/ SkipPhrase \in Tokens(markdownContent)

\* The execution of the state machine ends: a state threw, or it succeeded.
WorkflowFailed(r) == Return(r, Status(500, "execution failed"))

\* The execution has the book queries of StrategicAnalysis and enters
\* ParallelRetrieval.
LibrarianStart(r) ==
    /\ Begins(r)
    /\ Step(r, "wf_retrieve", [NoLoc EXCEPT !.handler = "librarian"])
    /\ UNCHANGED <<store, index, clock, log>>
    /\ UNCHANGED <<archive, feed>>

\* The three book queries (strategicAnalysis.ts line 22) mapped over
\* retrieveAndCurate, and the sources of fetchArticles.
BookQueries == <<"query1", "query2", "query3">>
ArticleSources == <<"devto", "hackernews", "arxiv">>
\* One retrieval call finds something, finds nothing, or fails.
RetrievalOutcomes == {"hit", "empty", "failed"}

\* The names of list whose call failed.
FailedOf(list, outcome) ==
    SelectSeq(list, LAMBDA name : outcome[name] = "failed")

\* retrieveAndCurate.ts lines 74-144: a failed search is rethrown, no book
\* found returns null, a failed curation falls back to the first book.
RetrieveAndCurateThrows(books) == FailedOf(BookQueries, books) # <<>>

\* fetchArticles.ts lines 17-37: Promise.allSettled, a rejected source is
\* logged and the articles of the others are returned.
FetchArticles(articles) ==
    {name \in Tokens(ArticleSources) : articles[name] = "hit"}

\* sst.config.ts lines 109-145: the Map over the book queries beside
\* FetchArticles, neither with a Catch; then SynthesizeInsights.
ParallelRetrieval(r) ==
    /\ pc[r] = "wf_retrieve"
    /\ \E books \in [Tokens(BookQueries) -> RetrievalOutcomes],
          articles \in [Tokens(ArticleSources) -> RetrievalOutcomes] :
        LET failed == FailedOf(BookQueries, books) \o FailedOf(ArticleSources, articles)
            mapResult == {q \in Tokens(BookQueries) : books[q] = "hit"}
        IN /\ IF RetrieveAndCurateThrows(books)
              THEN WorkflowFailed(r)
              ELSE Step(r, "wf_synth", [loc[r] EXCEPT !.rawInput =
                        IF mapResult = {} /\ FetchArticles(articles) = {}
                        THEN "" ELSE "found"])
           /\ IF failed = <<>> THEN UNCHANGED log
              ELSE Logged(r, "branch_failed", failed)
    /\ UNCHANGED <<store, index, clock>>
    /\ UNCHANGED <<archive, feed>>

\* synthesizeInsights.ts lines 41-154
SynthesizeInsights(r) ==
    /\ pc[r] = "wf_synth"
    /\ \/ /\ loc[r].rawInput = ""
          /\ Step(r, "wf_check", [loc[r] EXCEPT !.newDoc = NoResultsText])
          /\ UNCHANGED log
       \/ /\ loc[r].rawInput # ""
          /\ \/ \E markdownOutput \in RecommendationTexts :
                    /\ Step(r, "wf_check", [loc[r] EXCEPT
                            !.newDoc = FinalMarkdown(markdownOutput)])
                    /\ UNCHANGED log
             \/ /\ WorkflowFailed(r)
                /\ Logged(r, "synth_failed", <<>>)
    /\ UNCHANGED <<store, index, clock>>
    /\ UNCHANGED <<archive, feed>>

\* persistRecs.ts lines 11-32: the skip, then the read of the stored record.
PersistRecsGet(r) ==
    /\ pc[r] = "wf_check"
    /\ IF SkipsPersist(loc[r].newDoc)
       THEN Return(r, Status(200, "skipped"))
       ELSE \/ Step(r, "wf_put", [loc[r] EXCEPT
                    !.existing = GetItem(store, READING_LIST_PK, DASHBOARD_SK),
                    !.now = clock])
            \/ \* the read throws: the warning is logged and createdAt is now
               Step(r, "wf_put", [loc[r] EXCEPT !.now = clock])
    /\ UNCHANGED <<store, index, clock, log>>
    /\ UNCHANGED <<archive, feed>>

\* persistRecs.ts lines 34-60
PersistRecsPut(r) ==
    /\ pc[r] = "wf_put"
    /\ \/ LET createdAt == IF IsPresent(loc[r].existing)
                           THEN loc[r].existing.createdAt
                           ELSE loc[r].now
          IN /\ store' = PutItem(store, READING_LIST_PK, DASHBOARD_SK,
                            DashboardRecord("reading_list", createdAt, clock, loc[r].newDoc))
             /\ Logged(r, "dashboard", loc[r].newDoc)
             /\ Return(r, Status(200, "persisted"))
       \/ /\ WorkflowFailed(r)
          /\ UNCHANGED <<store, log>>
    /\ UNCHANGED <<index, clock>>
    /\ UNCHANGED <<archive, feed>>

\* updateReadingList(newLog), whoever calls it.
LogReadingCall(r) ==
    /\ Begins(r)
    /\ \E newLog \in RawInputs :
        Step(r, "rl_get", [NoLoc EXCEPT !.handler = "updateReadingList",
                                        !.finalContent = newLog])
    /\ UNCHANGED <<store, index, clock, log>>
    /\ UNCHANGED <<archive, feed>>

NextLibrarian ==
    \/ Tick
    \/ \E r \in Reqs :
        \/ LibrarianStart(r)
        \/ ParallelRetrieval(r)
        \/ SynthesizeInsights(r)
        \/ PersistRecsGet(r)
        \/ PersistRecsPut(r)
        \/ LogReadingCall(r)
        \/ ReadingListGet(r)
        \/ ReadingListGenerate(r)
        \/ ReadingListPut(r)

Init ==
    /\ pc = [r \in Reqs |-> "idle"]
    /\ loc = [r \in Reqs |-> NoLoc]
    /\ resp = [r \in Reqs |-> NoResp]
    /\ store = <<>>
    /\ index = <<>>
    /\ clock = 0
    /\ log = [r \in Reqs |-> <<>>]
    /\ archive = <<>>
    /\ feed = <<>>

NextIngest ==
    \/ Tick
    \/ \E r \in Reqs :
        \/ IngestReceive(r)
        \/ IngestClassify(r)
        \/ IngestPut(r)
        \/ IngestEmbed(r)
        \/ IngestUpsert(r)
        \/ QueryEmbed(r)
        \/ QuerySearch(r)
        \/ QueryBatchGet(r)
        \/ QueryAnswer(r)
        \/ ReadingListGet(r)
        \/ ReadingListGenerate(r)
        \/ ReadingListPut(r)

SpecIngest == Init /\ [][NextIngest]_vars

SpecAgents == Init /\ [][NextAgents]_vars

\* part_013 line 139: the prompt asks for 6-8 recovered memories at most.
MaxMemories == 8

\* A life log whose list of recovered memories is full, as earlier
\* syntheses have left it in the store.
FullLifeLog ==
    <<"# Life Log", RecoveredMemories>> \o [i \in 1..MaxMemories |-> "memory"]
InitMemories ==
    /\ pc = [r \in Reqs |-> "idle"]
    /\ loc = [r \in Reqs |-> NoLoc]
    /\ resp = [r \in Reqs |-> NoResp]
    /\ store = PutItem(<<>>, DashboardPKOf("life_log"), DASHBOARD_SK,
                       DashboardRecord("life_log", 0, 0, FullLifeLog))
    /\ index = <<>>
    /\ clock = 0
    /\ log = [r \in Reqs |-> <<>>]
    /\ archive = <<>>
    /\ feed = <<>>

SpecMemories == InitMemories /\ [][NextAgents]_vars

SpecLibrarian == Init /\ [][NextLibrarian]_vars

(***************************************************************************)
(* src/workers/githubBackup.ts: the Backup Propagator, subscribed to the   *)
(* change feed of the Durable Store (sst.config.ts lines 41-54).           *)
(***************************************************************************)
\* The writers may run MaxFeed records ahead of the propagator.
MaxFeed == 2
\* Timestamps of one calendar day.
TicksPerDay == 2
BackupUser == "u1"
BackupDashboards == {"life_log", "reading_list"}
BackupDocs == {<<"# Log">>}
\* The ids drawn by ingest and by the migration.
IngestedIds == {1, 2}
MigratedIds == {3}

\* migrateLegacy.ts lines 209-225: a migrated entry carries skipBackup.
MigratedRecord(userId, id, createdAt, content) ==
    [type |-> "Entry", id |-> id, createdAt |-> createdAt, updatedAt |-> createdAt,
     content |-> content, mediaType |-> "text", userId |-> userId,
     skipBackup |-> TRUE]

\* What the writers of the table put at time now: ingest a new entry under a
\* fresh id, the migration a new entry under another, a synthesis a new or
\* rewritten dashboard.
TableWrites(st, now) ==
    {[PK |-> UserPK(BackupUser), SK |-> EntrySK(KSUID(n)),
      item |-> IngestRecord(BackupUser, KSUID(n), now, "Dune",
                  [intent |-> "save", content |-> "Dune", mediaType |-> "text"])] :
        n \in {n \in IngestedIds : ~IsPresent(GetItem(st, UserPK(BackupUser), EntrySK(KSUID(n))))}}
    \cup
    {[PK |-> UserPK(BackupUser), SK |-> EntrySK(KSUID(n)),
      item |-> MigratedRecord(BackupUser, KSUID(n), now, "Emma")] :
        n \in {n \in MigratedIds : ~IsPresent(GetItem(st, UserPK(BackupUser), EntrySK(KSUID(n))))}}
    \cup
    {[PK |-> DashboardPKOf(name), SK |-> DASHBOARD_SK,
      item |-> DashboardRecord(name,
                  IF IsPresent(GetItem(st, DashboardPKOf(name), DASHBOARD_SK))
                  THEN GetItem(st, DashboardPKOf(name), DASHBOARD_SK).createdAt
                  ELSE now,
                  now, content)] :
        name \in BackupDashboards, content \in BackupDocs}

\* stream: "new-image": the record of a write that changed the item.
StreamRecord(st, PK, SK, item) ==
    [eventName |-> IF IsPresent(GetItem(st, PK, SK)) THEN "MODIFY" ELSE "INSERT",
     NewImage |-> item]

\* A writer puts a record: the table emits its new image.
TableWrite ==
    /\ Len(feed) < MaxFeed
    /\ \E w \in TableWrites(store, clock) :
        /\ GetItem(store, w.PK, w.SK) # w.item
        /\ store' = PutItem(store, w.PK, w.SK, w.item)
        /\ feed' = Append(feed, StreamRecord(store, w.PK, w.SK, w.item))
    /\ UNCHANGED <<pc, loc, resp, index, clock, log, archive>>

\* The filter of the subscription: only records whose new image is an Entry.
MatchesFilter(record) == record.NewImage.type = "Entry"

BackupRunning == \E q \in Reqs : pc[q] = "b_record"

\* The feed drops the record at its head when the filter rejects it.
StreamFilter ==
    /\ ~BackupRunning
    /\ feed # <<>>
    /\ ~MatchesFilter(Head(feed))
    /\ feed' = Tail(feed)
    /\ UNCHANGED <<pc, loc, resp, store, index, clock, log, archive>>

\* The feed invokes the handler with a batch of records that passed the
\* filter, one invocation at a time; the batch stays in the feed until the
\* invocation has returned.
StreamDeliver(r) ==
    /\ Begins(r)
    /\ ~BackupRunning
    /\ \E n \in 1..Len(feed) :
        /\ \A i \in 1..n : MatchesFilter(feed[i])
        /\ Step(r, "b_record", [NoLoc EXCEPT !.handler = "githubBackup",
                !.records = SubSeq(feed, 1, n), !.at = 1])
    /\ UNCHANGED <<store, index, clock, log, archive, feed>>

\* Lines 18-22.
SkipBackup(item) == "skipBackup" \in DOMAIN item /\ item.skipBackup

\* A handler that mirrors the records flagged skipBackup too.
BackupArchivesFlagged(record) ==
    /\ record.eventName \in {"INSERT", "MODIFY"}
    /\ IsPresent(record.NewImage)
    /\ record.NewImage.type \in {"Entry", "Dashboard"}
    /\ record.NewImage.type = "Dashboard" => record.NewImage.id = "life_log"

\* Lines 11-38: the records the handler writes a file for.
BackupArchives(record) ==
    /\ record.eventName \in {"INSERT", "MODIFY"}
    /\ IsPresent(record.NewImage)
    /\ ~SkipBackup(record.NewImage)
    /\ record.NewImage.type \in {"Entry", "Dashboard"}
    /\ record.NewImage.type = "Dashboard" => record.NewImage.id = "life_log"

\* Lines 57-59: year, month and day of createdAt.
DateOf(createdAt) == createdAt \div TicksPerDay

\* Lines 32 and 56-63.
BackupPath(item) ==
    IF item.type = "Dashboard" THEN <<"00_Life_Log.md">>
    ELSE <<"Archive", DateOf(item.createdAt), item.id>>

\* Lines 33 and 40-54: the dashboard as it is, the entry under its
\* frontmatter.
BackupContent(item) ==
    IF item.type = "Dashboard" THEN item.content
    ELSE <<"---", <<"id", item.id>>, <<"created_at", item.createdAt>>,
           <<"type", item.mediaType>>, "---", item.content>>

\* A write that adds the content to what the file holds.
AppendsToFile(ar, path, content) ==
    IF path \in DOMAIN ar
    THEN [ar EXCEPT ![path] = @ \o <<"---">> \o content]
    ELSE [p \in DOMAIN ar \cup {path} |-> IF p = path THEN content ELSE ar[p]]

\* utils.ts lines 52-76: the file is created, or replaced as a whole.
createOrUpdateFile(ar, path, content) ==
    [p \in DOMAIN ar \cup {path} |-> IF p = path THEN content ELSE ar[p]]

\* Lines 10 and 77-79: the next record of the batch, or the return, on
\* which the feed lets go of the batch.
BackupContinue(r) ==
    IF loc[r].at < Len(loc[r].records)
    THEN /\ Step(r, "b_record", [loc[r] EXCEPT !.at = @ + 1])
         /\ UNCHANGED feed
    ELSE /\ Return(r, Status(0, "batch processed"))
         /\ feed' = SubSeq(feed, Len(loc[r].records) + 1, Len(feed))

\* A handler whose catch throws again: the invocation fails.
BackupCatchRethrows(r) ==
    /\ Return(r, Status(0, "worker failed"))
    /\ UNCHANGED feed

\* Lines 73-76: the error is logged and not thrown.
BackupCatch(r) == BackupContinue(r)

\* Lines 10-78: one turn of the loop.
BackupRecord(r) ==
    /\ pc[r] = "b_record"
    /\ LET record == loc[r].records[loc[r].at]
           item == record.NewImage
       IN \/ /\ BackupArchives(record)
             /\ archive' = createOrUpdateFile(archive, BackupPath(item), BackupContent(item))
             /\ Logged(r, "archive", BackupPath(item))
             /\ BackupContinue(r)
          \/ /\ BackupArchives(record)
             /\ Logged(r, "archive_failed", BackupPath(item))
             /\ BackupCatch(r)
             /\ UNCHANGED archive
          \/ /\ ~BackupArchives(record)
             /\ BackupContinue(r)
             /\ UNCHANGED <<archive, log>>
    /\ UNCHANGED <<store, index, clock>>

\* The invocation is cut off before it returns: the batch is delivered
\* again.
BackupTimeout(r) ==
    /\ pc[r] = "b_record"
    /\ Return(r, Status(0, "timed out"))
    /\ UNCHANGED <<store, index, clock, log, archive, feed>>

\* The version token of a file is the hash of its content; no file, no token.
NoSha == <<"undefined">>
ShaOf(content) == <<"sha", content>>
NoFile == [type |-> "File", content |-> <<>>, sha |-> NoSha]
\* Lines 104-141: the content and the token of the file, empty on a 404.
getFile(ar, path) ==
    IF path \in DOMAIN ar /\ ar[path] # <<>>
    THEN [type |-> "File", content |-> ar[path], sha |-> ShaOf(ar[path])]
    ELSE NoFile

\* functions/dashboard.ts lines 6-13: the file of each dashboard type.
DASHBOARD_FILES ==
    [life_log |-> <<"00_Life_Log.md">>, idea_garden |-> <<"00_Idea_Garden.md">>,
     story_bible |-> <<"00_Story_Bible.md">>, song_seeds |-> <<"00_Song_Seeds.md">>,
     dream_analysis |-> <<"00_Dream_Journal_Analysis.md">>,
     reading_list |-> <<"00_Book_Recommendations.md">>]

\* functions/dashboard.ts lines 15-68: the dashboard read of the API.
DashboardRead(r) ==
    /\ Begins(r)
    /\ \E userId \in {BackupUser, Absent}, type \in BackupDashboards \cup {Absent} :
        IF userId = Absent
        THEN Return(r, Status(401, "Unauthorized"))
        ELSE IF type \notin DOMAIN DASHBOARD_FILES
        THEN Return(r, Status(400, "Invalid dashboard type."))
        ELSE \/ Return(r, [Status(200, "dashboard") EXCEPT !.id = type,
                        !.answer = getFile(archive, DASHBOARD_FILES[type]).content])
             \/ Return(r, ErrorResponse("Internal Server Error", "GitHub error"))
    /\ UNCHANGED <<store, index, clock, log, archive, feed>>


NextBackup ==
    \/ Tick
    \/ TableWrite
    \/ StreamFilter
    \/ \E r \in Reqs :
        \/ StreamDeliver(r)
        \/ BackupRecord(r)
        \/ BackupTimeout(r)
        \/ DashboardRead(r)

SpecBackup == Init /\ [][NextBackup]_vars

(***************************************************************************)
(* src/utils.ts: appendToFile, the read-modify-write of a file of the      *)
(* archive by the handlers that keep monthly logs there.                   *)
(***************************************************************************)
AppendPaths == {<<"Archive", "ideas">>, <<"Archive", "lyrics">>}

\* A repository that takes a put whatever token it carries.
PutIgnoresSha(ar, path, sha) == TRUE

\* createOrUpdateFileContents: the repository takes the put of a new file
\* without a token, and of an existing file with the token of what it holds.
PutAccepted(ar, path, sha) ==
    IF path \in DOMAIN ar THEN sha = ShaOf(ar[path]) ELSE sha = NoSha

\* Line 86.
AppendedContent(existingContent, content) ==
    IF existingContent # <<>> THEN existingContent \o <<"---", content>>
    ELSE <<content>>

AppendCall(r) ==
    /\ Begins(r)
    /\ \E path \in AppendPaths, content \in RawInputs :
        Step(r, "ap_get", [NoLoc EXCEPT !.handler = "appendToFile",
                !.id = path, !.finalContent = content])
    /\ UNCHANGED <<store, index, clock, log, archive, feed>>

\* Line 85.
AppendGetFile(r) ==
    /\ pc[r] = "ap_get"
    /\ \/ Step(r, "ap_put", [loc[r] EXCEPT !.existing = getFile(archive, loc[r].id)])
       \/ Return(r, ErrorResponse("appendToFile threw", "GitHub error"))
    /\ UNCHANGED <<store, index, clock, log, archive, feed>>

\* Lines 86-95.
AppendPut(r) ==
    /\ pc[r] = "ap_put"
    /\ LET newContent == AppendedContent(loc[r].existing.content, loc[r].finalContent)
       IN \/ /\ PutAccepted(archive, loc[r].id, loc[r].existing.sha)
             /\ archive' = createOrUpdateFile(archive, loc[r].id, newContent)
             /\ Logged(r, "archive", loc[r].id)
             /\ Return(r, [Status(200, "appended") EXCEPT !.id = loc[r].id,
                              !.answer = loc[r].finalContent])
          \/ /\ Logged(r, "archive_failed", loc[r].id)
             /\ Return(r, ErrorResponse("appendToFile threw",
                    IF PutAccepted(archive, loc[r].id, loc[r].existing.sha)
                    THEN "GitHub error" ELSE "GitHub 409"))
             /\ UNCHANGED archive
    /\ UNCHANGED <<store, index, clock, feed>>

NextAppend ==
    \E r \in Reqs :
        \/ AppendCall(r)
        \/ AppendGetFile(r)
        \/ AppendPut(r)

SpecAppend == Init /\ [][NextAppend]_vars

(***************************************************************************)
(* The first two states of the recommendation workflow (sst.config.ts      *)
(* lines 89-107): FetchContext (librarian/fetchContext.ts) and             *)
(* StrategicAnalysis (librarian/strategicAnalysis.ts).                     *)
(***************************************************************************)
\* fetchContext.ts line 11: the entries of the last seven days.
RecentDays == 7
EntryIds == <<1, 2, 3>>

\* getRecentEntries: the scan for items of type Entry created since then.
getRecentEntries(st, now) ==
    LET ids == SelectSeq(EntryIds, LAMBDA n :
                  /\ IsPresent(GetItem(st, UserPK(BackupUser), EntrySK(KSUID(n))))
                  /\ GetItem(st, UserPK(BackupUser), EntrySK(KSUID(n))).createdAt
                        >= now - RecentDays * TicksPerDay)
    IN [i \in 1..Len(ids) |-> GetItem(st, UserPK(BackupUser), EntrySK(KSUID(ids[i])))]

\* fetchContext.ts line 114: what the handler returns, which the state puts
\* under fetchContextResult.
FetchContextResult(recentEntries) ==
    [recentEntries |-> recentEntries, pastRecsList |-> <<>>, allIngestedUrls |-> <<>>]

\* fetchContext.ts lines 103-115; a scan that throws is caught and gives [].
FetchContext(r) ==
    /\ Begins(r)
    /\ \E recentEntries \in {getRecentEntries(store, clock), <<>>} :
        Step(r, "wf_analysis", [NoLoc EXCEPT !.handler = "librarian",
                                             !.records = recentEntries])
    /\ UNCHANGED <<store, index, clock, log>>
    /\ UNCHANGED <<archive, feed>>

\* sst.config.ts lines 100-102: the payload of StrategicAnalysis has one
\* key, whose value is read from a field of fetchContextResult; a field the
\* result does not have evaluates to nothing, and the key is left out.
PayloadKey == "recentWriting"
PayloadPath == "recentWriting"
StrategicAnalysisPayload(fetchContextResult) ==
    [k \in (IF PayloadPath \in DOMAIN fetchContextResult THEN {PayloadKey} ELSE {})
        |-> fetchContextResult[PayloadPath]]

\* strategicAnalysis.ts lines 28-43 and 125: the queries of the default
\* analysis, and those the oracle derives from the entries.
DefaultQueries == <<"general programming", "philosophy of science", "history of technology">>
LensQueries == <<"data lens", "counterpoint lens", "orthogonal lens">>

\* strategicAnalysis.ts line 28
HasRecentEntries(event) ==
    /\ "recentEntries" \in DOMAIN event
    /\ event["recentEntries"] # <<>>

\* How the state can end: the expression of the payload is rejected by the
\* workflow engine, the handler returns queries, or the handler throws
\* (strategicAnalysis.ts lines 87-129).
AnalysisOutcomes(fetchContextResult) ==
    LET event == StrategicAnalysisPayload(fetchContextResult) IN
    (IF PayloadPath \in DOMAIN fetchContextResult
     THEN {}
     ELSE {[ok |-> FALSE, error |-> "States.QueryEvaluationError", queries |-> <<>>]})
    \cup
    (IF HasRecentEntries(event)
     THEN {[ok |-> TRUE, error |-> "", queries |-> LensQueries],
           [ok |-> FALSE, error |-> "execution failed", queries |-> <<>>]}
     ELSE {[ok |-> TRUE, error |-> "", queries |-> DefaultQueries]})

StrategicAnalysis(r) ==
    /\ pc[r] = "wf_analysis"
    /\ \E outcome \in AnalysisOutcomes(FetchContextResult(loc[r].records)) :
        IF outcome.ok
        THEN Step(r, "wf_retrieve", [loc[r] EXCEPT !.contextIds = outcome.queries])
        ELSE Return(r, Status(500, outcome.error))
    /\ UNCHANGED <<store, index, clock, log>>
    /\ UNCHANGED <<archive, feed>>

NextAnalysis ==
    \/ Tick
    \/ TableWrite
    \/ \E r \in Reqs :
        \/ FetchContext(r)
        \/ StrategicAnalysis(r)

SpecAnalysis == Init /\ [][NextAnalysis]_vars

(***************************************************************************)
(* src/librarian/retrieveAndCurate.ts: one book query of the workflow.     *)
(***************************************************************************)
\* What the book search can list: volumes with an id and a title.
Volumes == {[id |-> "v1", title |-> "Dune"], [id |-> "v2", title |-> "Emma"],
            [id |-> "v3", title |-> "Solaris"]}
BookLists ==
    {<<>>} \cup {<<a>> : a \in Volumes}
           \cup {p \in Volumes \X Volumes : p[1] # p[2]}
NoBook == [id |-> "null", title |-> "null"]

\* The lines of BookRecommendations.md: a heading of level two with its
\* text, or another line.
RecommendationFiles ==
    {<<>>,
     <<[mark |-> "##", text |-> "Dune"]>>,
     <<[mark |-> "#", text |-> "Books"], [mark |-> "##", text |-> "Dune"],
       [mark |-> "##", text |-> "Emma"]>>}

\* retrieveAndCurate.ts lines 47-72: the titles under the headings of level
\* two; a file that is missing or cannot be read gives no title.
getPastRecommendations(content) ==
    LET titles == SelectSeq(content, LAMBDA line : line.mark = "##")
    IN [i \in 1..Len(titles) |-> titles[i].text]

Includes(list, x) == \E i \in 1..Len(list) : list[i] = x

\* retrieveAndCurate.ts lines 141-142: the first book whose title is not a
\* past recommendation, or null.
FallbackBook(books, pastRecsList) ==
    LET rest == SelectSeq(books, LAMBDA book : ~Includes(pastRecsList, book.title))
    IN IF rest = <<>> THEN NoBook ELSE rest[1]

\* What the curating oracle can reply: the JSON of a volume, listed or not,
\* or text that does not parse.
CuratorReplies == Volumes \cup {NoBook}

\* retrieveAndCurate.ts lines 125-143: the reply is returned when its id is
\* the id of a listed book; anything else goes to the fallback.
CuratedBook(books, pastRecsList, reply) ==
    IF reply # NoBook /\ (\E i \in 1..Len(books) : books[i].id = reply.id)
    THEN reply
    ELSE FallbackBook(books, pastRecsList)

\* retrieveAndCurate.ts lines 74-77
CurateCall(r) ==
    /\ Begins(r)
    /\ \E content \in RecommendationFiles :
        Step(r, "rc_search", [NoLoc EXCEPT !.handler = "retrieveAndCurate",
                                           !.sources = getPastRecommendations(content)])
    /\ UNCHANGED <<store, index, clock, log>>
    /\ UNCHANGED <<archive, feed>>

\* retrieveAndCurate.ts lines 79-107: the search throws, finds nothing, or
\* lists books.
CurateSearch(r) ==
    /\ pc[r] = "rc_search"
    /\ \/ Return(r, Status(500, "Failed to search for books."))
       \/ \E books \in BookLists :
            IF books = <<>>
            THEN Return(r, [Status(200, "curated") EXCEPT !.answer = NoBook])
            ELSE Step(r, "rc_curate", [loc[r] EXCEPT !.records = books])
    /\ UNCHANGED <<store, index, clock, log>>
    /\ UNCHANGED <<archive, feed>>

\* retrieveAndCurate.ts lines 109-143
CurateSelect(r) ==
    /\ pc[r] = "rc_curate"
    /\ \E reply \in CuratorReplies :
        Return(r, [Status(200, "curated") EXCEPT
                     !.answer = CuratedBook(loc[r].records, loc[r].sources, reply)])
    /\ UNCHANGED <<store, index, clock, log>>
    /\ UNCHANGED <<archive, feed>>

NextCurate ==
    \E r \in Reqs :
        \/ CurateCall(r)
        \/ CurateSearch(r)
        \/ CurateSelect(r)

SpecCurate == Init /\ [][NextCurate]_vars

(***************************************************************************)
(* scripts/migrateLegacy.ts: the migration of the legacy markdown files.   *)
(***************************************************************************)
TARGET_USER_ID == "migrated_user"

\* The markdown files of the legacy repository: one dated by its name, one
\* with no date, one that is blank.
NoDate == 0 - 1
LegacyFiles ==
    <<[path |-> "2020-01-01.md", content |-> "Dune", date |-> 0],
      [path |-> "blank.md", content |-> "", date |-> NoDate],
      [path |-> "notes.md", content |-> "Emma", date |-> NoDate]>>

\* migrateLegacy.ts lines 195-203: the date of the file, or now.
MigrationDate(file, now) == IF file.date = NoDate THEN now ELSE file.date

\* migrateLegacy.ts lines 234-241
MigrationMetadata(userId, id, createdAt) ==
    [id |-> id, userId |-> userId, mediaType |-> "text", createdAt |-> createdAt]

\* migrateLegacy.ts lines 180-184: the script is started by hand, one run
\* after the other; the cleanup of the previous run is commented out, and
\* a traversal that throws leaves the files found so far.
MigrationStart(r) ==
    /\ Begins(r)
    /\ \A q \in Reqs : pc[q] \in {"idle", "done"}
    /\ \E n \in 0..Len(LegacyFiles) :
        Step(r, "mg_file", [NoLoc EXCEPT !.handler = "migrateLegacy",
                                         !.userId = TARGET_USER_ID,
                                         !.records = SubSeq(LegacyFiles, 1, n),
                                         !.at = 1])
    /\ UNCHANGED <<store, index, clock, log>>
    /\ UNCHANGED <<archive, feed>>

\* The loop goes on to the next file.
MigrationContinue(r) == Step(r, "mg_file", [loc[r] EXCEPT !.at = @ + 1])

\* migrateLegacy.ts lines 186-230 and 252-254: the end of the loop, a blank
\* file, a failure that is logged, or the put of the entry under a new id.
MigrationPut(r) ==
    /\ pc[r] = "mg_file"
    /\ IF loc[r].at > Len(loc[r].records)
       THEN /\ Return(r, Status(0, "migration completed"))
            /\ UNCHANGED <<store, log>>
       ELSE LET file == loc[r].records[loc[r].at]
                id == KSUID(<<r, loc[r].at>>)
                createdAt == MigrationDate(file, clock)
            IN IF file.content = ""
               THEN MigrationContinue(r) /\ UNCHANGED <<store, log>>
               ELSE \/ /\ store' = PutItem(store, UserPK(loc[r].userId), EntrySK(id),
                                    MigratedRecord(loc[r].userId, id, createdAt,
                                                   file.content))
                       /\ Logged(r, "store", <<>>)
                       /\ Step(r, "mg_upsert", [loc[r] EXCEPT !.id = id,
                                                              !.now = createdAt])
                    \/ /\ MigrationContinue(r)
                       /\ Logged(r, "store_failed", <<>>)
                       /\ UNCHANGED store
    /\ UNCHANGED <<index, clock>>
    /\ UNCHANGED <<archive, feed>>

\* migrateLegacy.ts lines 232-254: the embedding and the upsert, or a
\* failure that is logged; the loop goes on in both cases.
MigrationUpsert(r) ==
    /\ pc[r] = "mg_upsert"
    /\ \/ /\ index' = Upsert(index, "biography", loc[r].id,
                        getEmbedding(loc[r].records[loc[r].at].content),
                        MigrationMetadata(loc[r].userId, loc[r].id, loc[r].now))
          /\ Logged(r, "index", <<>>)
       \/ /\ Logged(r, "index_failed", <<>>)
          /\ UNCHANGED index
    /\ MigrationContinue(r)
    /\ UNCHANGED <<store, clock>>
    /\ UNCHANGED <<archive, feed>>

NextMigration ==
    \/ Tick
    \/ \E r \in Reqs :
        \/ MigrationStart(r)
        \/ MigrationPut(r)
        \/ MigrationUpsert(r)

SpecMigration == Init /\ [][NextMigration]_vars

(***************************************************************************)
(* src/librarian/dreamer.ts: the serendipity engine.                       *)
(***************************************************************************)
\* The entries one user has captured before the engine runs, and the
\* resolution of Math.random().
MaxDreamEntries == 7
RandSteps == 4
\* dreamer.ts line 72
DreamTopK == 50
DreamUser == "u1"
DreamSizes == {0} \cup (5..MaxDreamEntries)

DreamContent(j) == IF j % 2 = 0 THEN "Dune" ELSE "Emma"
DreamOwner(n, j) == IF j > n THEN "u2" ELSE DreamUser
DreamRouterOutput(j) ==
    [intent |-> "save", content |-> DreamContent(j), mediaType |-> "text"]

\* n entries of the user and one of another user, as ingest.ts has put
\* them in the default namespace and in the table.
DreamIndex(n) ==
    [k \in {<<"", KSUID(j)>> : j \in 1..(n + 1)} |->
        LET j == k[2][2]
        IN [values |-> getEmbedding(DreamContent(j)),
            metadata |-> IngestMetadata(DreamOwner(n, j), k[2], 0, DreamRouterOutput(j))]]
DreamStore(n) ==
    [k \in {<<UserPK(DreamOwner(n, j)), EntrySK(KSUID(j))>> : j \in 1..(n + 1)} |->
        LET j == k[2][2][2]
        IN IngestRecord(DreamOwner(n, j), KSUID(j), 0, DreamContent(j),
                        DreamRouterOutput(j))]

InitDreamer ==
    \E n \in DreamSizes :
        /\ pc = [r \in Reqs |-> "idle"]
        /\ loc = [r \in Reqs |-> NoLoc]
        /\ resp = [r \in Reqs |-> NoResp]
        /\ store = IF n = 0 THEN <<>> ELSE DreamStore(n)
        /\ index = IF n = 0 THEN <<>> ELSE DreamIndex(n)
        /\ clock = 0
        /\ log = [r \in Reqs |-> <<>>]
        /\ archive = <<>>
        /\ feed = <<>>

\* The handler returns nothing, whatever happened.
DreamReturn(r, message) == Return(r, Status(0, message))

\* dreamer.ts lines 166-168: the catch of the handler.
DreamCatch(r) == DreamReturn(r, "Error in Dreamer execution")

\* dreamer.ts lines 36-54: the entry closest to a random point of the
\* space, which can be any entry of the default namespace.
DreamStart(r) ==
    /\ Begins(r)
    /\ \/ IF Candidates(index, "", Absent) = {}
          THEN DreamReturn(r, "No entries found in Pinecone")
          ELSE \E k \in Candidates(index, "", Absent) :
                 Step(r, "dr_seed", [NoLoc EXCEPT !.handler = "serendipity",
                                                  !.id = k[2],
                                                  !.userId = index[k].metadata.userId])
       \/ DreamCatch(r)
    /\ UNCHANGED <<store, index, clock, log>>
    /\ UNCHANGED <<archive, feed>>

\* dreamer.ts lines 14-28 and 57-62: getRecord gives null when the read
\* fails or finds nothing.
DreamSeed(r) ==
    /\ pc[r] = "dr_seed"
    /\ \/ LET seedRecord == GetItem(store, UserPK(loc[r].userId), EntrySK(loc[r].id))
          IN IF IsPresent(seedRecord)
             THEN Step(r, "dr_relate", [loc[r] EXCEPT !.existing = seedRecord])
             ELSE DreamReturn(r, "Could not fetch seed record")
       \/ DreamReturn(r, "Could not fetch seed record")
    /\ UNCHANGED <<store, index, clock, log>>
    /\ UNCHANGED <<archive, feed>>

\* A filter that keeps the seed among its own relatives.
DreamCandidatesWithSeed(matches, seedId) == matches

\* dreamer.ts line 77
DreamCandidates(matches, seedId) ==
    SelectSeq(matches, LAMBDA m : m.id # seedId)

\* An index drawn over one position more than the lower half holds.
DistantIndexPastEnd(n, rand) ==
    LET minIndex == n \div 2
        maxIndex == n - 1
    IN (rand * (maxIndex - minIndex + 2)) \div RandSteps + minIndex

\* dreamer.ts lines 87-89, for Math.random() = rand / RandSteps: positions
\* count from 0.
DistantIndex(n, rand) ==
    LET minIndex == n \div 2
        maxIndex == n - 1
    IN (rand * (maxIndex - minIndex + 1)) \div RandSteps + minIndex

\* dreamer.ts lines 66-91
DreamRelate(r) ==
    /\ pc[r] = "dr_relate"
    /\ \/ LET seedVector == getEmbedding(loc[r].existing.content)
              relations == queryPinecone(index, seedVector, DreamTopK, "", loc[r].userId)
              candidates == DreamCandidates(relations, loc[r].id)
          IN IF Len(candidates) < 5
             THEN DreamReturn(r, "Not enough related items")
             ELSE \E rand \in 0..(RandSteps - 1) :
                    Step(r, "dr_distant", [loc[r] EXCEPT
                            !.sources = candidates,
                            !.at = DistantIndex(Len(candidates), rand)])
       \/ DreamCatch(r)
    /\ UNCHANGED <<store, index, clock, log>>
    /\ UNCHANGED <<archive, feed>>

\* dreamer.ts lines 91-99
DreamDistant(r) ==
    /\ pc[r] = "dr_distant"
    /\ \/ LET distantMatch == loc[r].sources[loc[r].at + 1]
              distantRecord == GetItem(store, UserPK(loc[r].userId), EntrySK(distantMatch.id))
          IN IF IsPresent(distantRecord)
             THEN Step(r, "dr_spark", [loc[r] EXCEPT !.missing = <<distantRecord.content>>])
             ELSE DreamReturn(r, "Could not fetch distant record")
       \/ DreamReturn(r, "Could not fetch distant record")
    /\ UNCHANGED <<store, index, clock, log>>
    /\ UNCHANGED <<archive, feed>>

\* dreamer.ts lines 102-127: the spark, its id and its date.
DreamSpark(r) ==
    /\ pc[r] = "dr_spark"
    /\ \/ Step(r, "dr_put", [loc[r] EXCEPT !.finalContent = "Spark",
                                           !.id = KSUID(MaxDreamEntries + 1 + r),
                                           !.now = clock])
       \/ DreamCatch(r)
    /\ UNCHANGED <<store, index, clock, log>>
    /\ UNCHANGED <<archive, feed>>

\* dreamer.ts lines 129-147
DreamPut(r) ==
    /\ pc[r] = "dr_put"
    /\ \/ /\ store' = PutItem(store, UserPK(loc[r].userId), EntrySK(loc[r].id),
                        AgentEntryRecord(loc[r].userId, loc[r].id, loc[r].now,
                                         loc[r].finalContent))
          /\ Logged(r, "store", <<>>)
          /\ Step(r, "dr_upsert", loc[r])
       \/ /\ DreamCatch(r)
          /\ Logged(r, "store_failed", <<>>)
          /\ UNCHANGED store
    /\ UNCHANGED <<index, clock>>
    /\ UNCHANGED <<archive, feed>>

\* dreamer.ts lines 149-165
DreamUpsert(r) ==
    /\ pc[r] = "dr_upsert"
    /\ \/ /\ index' = Upsert(index, "", loc[r].id, getEmbedding(loc[r].finalContent),
                        MigrationMetadata(loc[r].userId, loc[r].id, loc[r].now))
          /\ Logged(r, "index", <<>>)
          /\ DreamReturn(r, "Spark saved successfully")
       \/ /\ DreamCatch(r)
          /\ Logged(r, "index_failed", <<>>)
          /\ UNCHANGED index
    /\ UNCHANGED <<store, clock>>
    /\ UNCHANGED <<archive, feed>>

NextDreamer ==
    \E r \in Reqs :
        \/ DreamStart(r)
        \/ DreamSeed(r)
        \/ DreamRelate(r)
        \/ DreamDistant(r)
        \/ DreamSpark(r)
        \/ DreamPut(r)
        \/ DreamUpsert(r)

SpecDreamer == InitDreamer /\ [][NextDreamer]_vars

(***************************************************************************)
(* The query branch over an index that earlier captures have filled.  Each *)
(* namespace holds one of a few fills; a fill lists the contents captured, *)
(* which decide the score against the query, and the position decides the *)
(* age and the owner.                                                      *)
(***************************************************************************)
Fills ==
    { <<>>,
      <<"summary", "summary", "summary", "summary", "summary">>,
      <<"Dune", "Dune", "Dune", "Dune", "Dune">>,
      <<"Dune", "summary", "Dune", "summary", "Dune", "summary">> }
FillWidth == 6

MockId(i, j) == KSUID((i - 1) * FillWidth + j)
MockOwner(j) == IF j = FillWidth THEN "u2" ELSE "u1"
MockCreatedAt(i, j) == (i + j) % 2
MockKeys(fill) ==
    {<<i, j>> \in (1..Len(Namespaces)) \X (1..FillWidth) : j <= Len(fill[i])}

\* The default namespace is filled by ingest.ts, whose metadata has no text;
\* the others by the agents, whose metadata carries the text.
MockIndex(fill) ==
    [k \in {<<Namespaces[ij[1]], MockId(ij[1], ij[2])>> : ij \in MockKeys(fill)} |->
        LET ij == CHOOSE ij \in MockKeys(fill) : MockId(ij[1], ij[2]) = k[2]
            i == ij[1]
            j == ij[2]
        IN [values |-> getEmbedding(fill[i][j]),
            metadata |->
                IF Namespaces[i] = ""
                THEN IngestMetadata(MockOwner(j), k[2], MockCreatedAt(i, j),
                        [intent |-> "save", content |-> fill[i][j], mediaType |-> "text"])
                ELSE AgentMetadata(MockOwner(j), k[2], MockCreatedAt(i, j), fill[i][j])]]

MockStore(fill) ==
    [k \in {<<UserPK(MockOwner(j)), EntrySK(MockId(1, j))>> : j \in 1..Len(fill[1])} |->
        LET j == CHOOSE j \in 1..Len(fill[1]) : EntrySK(MockId(1, j)) = k[2]
        IN IngestRecord(MockOwner(j), MockId(1, j), MockCreatedAt(1, j), fill[1][j],
                [intent |-> "save", content |-> fill[1][j], mediaType |-> "text"])]

InitQuery ==
    \E fill \in [1..Len(Namespaces) -> Fills], userId \in Users :
        /\ pc = [r \in Reqs |-> IF r = 1 THEN "q_embed" ELSE "idle"]
        /\ loc = [r \in Reqs |->
                    IF r = 1
                    THEN [NoLoc EXCEPT !.handler = "ingest", !.userId = userId,
                            !.rawInput = "Dune",
                            !.ro = [intent |-> "query", content |-> "summary",
                                    mediaType |-> "text"]]
                    ELSE NoLoc]
        /\ resp = [r \in Reqs |-> NoResp]
        /\ store = MockStore(fill)
        /\ index = MockIndex(fill)
        /\ clock = 0
        /\ log = [r \in Reqs |-> <<>>]
        /\ archive = <<>>
        /\ feed = <<>>

NextQuery ==
    \E r \in Reqs :
        \/ QueryEmbed(r)
        \/ QuerySearch(r)
        \/ QueryBatchGet(r)
        \/ QueryAnswer(r)

SpecQuery == InitQuery /\ [][NextQuery]_vars

(***************************************************************************)
(* Properties.                                                             *)
(***************************************************************************)

Ops(r) == {log[r][i].op : i \in 1..Len(log[r])}
Quiescent == \A r \in Reqs : pc[r] \in {"idle", "done"}
EntryOf(r) == GetItem(store, UserPK(loc[r].userId), EntrySK(loc[r].id))

\* The ingest invocation r has put its entry and has not returned yet.
IngestStored(r) ==
    /\ loc[r].handler = "ingest"
    /\ pc[r] \in {"embed", "upsert", "rl_get", "rl_gen", "rl_put"}

\* C1: the entry an ingestion has stored with media type text holds the raw
\* input of the request, whatever content the router returned.
C1_VerbatimText ==
    \A r \in Reqs :
        (IngestStored(r) /\ EntryOf(r).mediaType = "text")
            => EntryOf(r).content = loc[r].rawInput

\* A text entry is stored while the router returned different content.
C1_Witness ==
    \E r \in Reqs :
        /\ IngestStored(r)
        /\ EntryOf(r).mediaType = "text"
        /\ loc[r].ro.content # loc[r].rawInput
        /\ EntryOf(r).content = loc[r].rawInput

\* C2: in every invocation that ingests an entry, the write to the Durable
\* Store completes before the upsert to the Vector Index: no invocation has
\* upserted a projection without having stored the entry first.
C2_StoreBeforeIndex ==
    \A r \in Reqs : \A i \in 1..Len(log[r]) :
        log[r][i].op = "index" => \E j \in 1..(i - 1) : log[r][j].op = "store"

\* C3: an invocation whose write to the Durable Store failed has attempted no
\* upsert, so once no invocation is in flight every projection of the index
\* has its entry in the store.
C3_NoProjectionWithoutEntry ==
    /\ \A r \in Reqs : "store_failed" \in Ops(r) => "index" \notin Ops(r)
    /\ Quiescent =>
         \A k \in DOMAIN index : \E e \in DOMAIN store : e[2] = EntrySK(k[2])

\* C4: an ingestion whose upsert failed after its store write succeeded
\* leaves the entry stored and returns a success status.
C4_PartialSuccess ==
    \A r \in Reqs :
        ({"store", "index_failed"} \subseteq Ops(r) /\ pc[r] = "done")
            => resp[r].statusCode = 200

\* C5: an ingestion whose router reply breaks the schema writes no entry and
\* no projection, and ends with an error.
C5_InvalidReplyWritesNothing ==
    \A r \in Reqs :
        "invalid_reply" \in Ops(r) =>
            /\ Ops(r) \cap {"store", "index", "dashboard"} = {}
            /\ pc[r] = "done" => resp[r].statusCode = 500

\* C6: an invocation the router classified as a query writes nothing: each of
\* its steps leaves the store and the index as they were, it logs no write,
\* and when it answers it returns 200 with the identities of indexed items.
QueryStep(r) ==
    /\ pc'[r] # pc[r]
    /\ \/ loc[r].ro.intent = "query"
       \/ loc'[r].ro.intent = "query"
QueryAnswered(r) == pc[r] = "done" /\ resp[r].message = "Query processed"
IndexedIds == {k[2] : k \in DOMAIN index}
C6_QueryReadsOnly ==
    /\ [][\A r \in Reqs : QueryStep(r) => UNCHANGED <<store, index>>]_vars
    /\ [](\A r \in Reqs :
            /\ (loc[r].ro.intent = "query" \/ QueryAnswered(r)) =>
                 Ops(r) \cap {"store", "index", "dashboard"} = {}
            /\ QueryAnswered(r) =>
                 /\ resp[r].statusCode = 200
                 /\ \A i \in 1..Len(resp[r].sources) : resp[r].sources[i] \in IndexedIds)

\* A query has been answered with a cited source while an entry is stored.
C6_Witness ==
    \E r \in Reqs :
        /\ QueryAnswered(r)
        /\ resp[r].sources # <<>>
        /\ store # <<>>

\* C7: a failed synthesis leaves the store as it was, so a dashboard that had
\* content keeps it, and the invocation writes no dashboard afterwards.
SynthesisFails(r) ==
    /\ Len(log'[r]) = Len(log[r]) + 1
    /\ log'[r][Len(log'[r])].op = "synth_failed"
DashboardOf(st, name) == GetItem(st, DashboardPKOf(name), DASHBOARD_SK)
DashboardNames == {AgentDashboard(a) : a \in Agents}
C7_FailedSynthesisKeepsDashboard ==
    /\ [][\A r \in Reqs : SynthesisFails(r) =>
            /\ store' = store
            /\ \A name \in DashboardNames :
                  HasContent(DashboardOf(store, name)) =>
                      DashboardOf(store', name) = DashboardOf(store, name)]_vars
    /\ [](\A r \in Reqs : \A i \in 1..Len(log[r]) :
            log[r][i].op = "synth_failed" =>
                \A j \in (i + 1)..Len(log[r]) : log[r][j].op # "dashboard")

\* A synthesis has failed for an agent whose dashboard has content.
C7_Witness ==
    \E r \in Reqs :
        /\ pc[r] = "done"
        /\ log[r] # <<>>
        /\ log[r][Len(log[r])].op = "synth_failed"
        /\ log[r][Len(log[r])].by \in Agents
        /\ HasContent(DashboardOf(store, AgentDashboard(log[r][Len(log[r])].by)))

\* C8: no dashboard in the store is empty: an empty or invalid oracle result
\* is never persisted.
C8_NoEmptyDashboard ==
    \A k \in DOMAIN store : store[k].type = "Dashboard" => store[k].content # <<>>

\* C9: a book listed under the Current Reading heading of the reading list
\* is still listed there after a recommendation pass has persisted.
CurrentReading(st) ==
    IF HasContent(DashboardOf(st, "reading_list"))
    THEN Tokens(Section(DashboardOf(st, "reading_list").content, "## Current Reading"))
    ELSE {}
PersistsRecs(r) ==
    /\ pc[r] = "wf_put"
    /\ pc'[r] = "done"
    /\ store' # store
C9_CurrentReadingSurvives ==
    [][\A r \in Reqs : PersistsRecs(r) =>
          ("Dune" \in CurrentReading(store) => "Dune" \in CurrentReading(store'))]_vars

\* C10: when a recommendation pass and a reading-log update have both
\* written the reading list and returned, the stored list holds the
\* recommendations the one wrote and the books the other listed.
DashboardWrites(r, handlers) ==
    {log[r][i].doc : i \in {j \in 1..Len(log[r]) :
        log[r][j].op = "dashboard" /\ log[r][j].by \in handlers}}
C10_WritersKeepEachOther ==
    \A a, b \in Reqs :
        \A recs \in DashboardWrites(a, {"librarian"}) :
        \A list \in DashboardWrites(b, {"updateReadingList", "ingest"}) :
            (pc[a] = "done" /\ pc[b] = "done") =>
                /\ ("rec:Book" \in Tokens(recs) =>
                      "rec:Book" \in Tokens(DashboardOf(store, "reading_list").content))
                /\ Tokens(Section(list, "## Current Reading")) \cap RawInputs
                      \subseteq CurrentReading(store)

\* C11: a dashboard write is a replacement of the whole document that no
\* version check rejects: whatever the store holds when an agent saves its
\* dashboard, the stored content becomes the document that agent synthesized
\* from the copy it read, so the update of a writer in between is discarded.
SavesDashboard(r) ==
    /\ pc[r] = "a_savedash"
    /\ Len(log'[r]) = Len(log[r]) + 1
    /\ log'[r][Len(log'[r])].op = "dashboard"
C11_LastWriterWins ==
    [][\A r \in Reqs : SavesDashboard(r) =>
          DashboardOf(store', AgentDashboard(loc[r].handler)).content = loc[r].newDoc]_vars

\* Two agents of one domain have both saved the dashboard; the one that saved
\* last had read it before the other saved, and the stored document has lost
\* the thought the other had added.
C11_Witness ==
    \E a, b \in Reqs : \E c \in RawInputs :
        \E first \in DashboardWrites(a, {"philosopher"}) :
        \E second \in DashboardWrites(b, {"philosopher"}) :
            /\ a # b
            /\ pc[a] = "done" /\ pc[b] = "done"
            /\ c \in Tokens(first)
            /\ c \notin Tokens(second)
            /\ second # <<>>
            /\ DashboardOf(store, "idea_garden").content = second

\* C12: the recall an agent issues returns only projections of the user it
\* acts for.
RecallOf(r) ==
    queryPinecone(index, loc[r].vector, AgentTopK(loc[r].handler),
                  AgentNamespace(loc[r].handler),
                  AgentRecallFilter(loc[r].handler, loc[r].userId))
C12_OwnerScopedRecall ==
    \A r \in Reqs :
        pc[r] = "a_recall" =>
            \A i \in 1..Len(RecallOf(r)) :
                RecallOf(r)[i].metadata.userId = loc[r].userId

\* C13: the dashboard an agent has read as its current state was not written
\* for another user.
ReadsDashboardOf(r, q) ==
    /\ pc[r] \in {"a_synth", "a_savedash"}
    /\ IsPresent(loc[r].existing)
    /\ \E i \in 1..Len(log[q]) :
          /\ log[q][i].op = "dashboard"
          /\ log[q][i].by = loc[r].handler
          /\ log[q][i].doc = loc[r].existing.content
          /\ log[q][i].user # loc[r].userId
C13_DashboardPerUser ==
    \A r, q \in Reqs : r # q => ~ReadsDashboardOf(r, q)

\* C14: an entry, once in the store, is never written again: every step
\* leaves the content of every stored entry as it was.
Entries(st) == {k \in DOMAIN st : st[k].type = "Entry"}
C14_EntryNeverOverwritten ==
    [][\A k \in Entries(store) :
          k \in DOMAIN store' /\ store'[k].content = store[k].content]_vars

\* C15: once no invocation is in flight, every entry of the store has exactly
\* one projection in the index under its id.
ProjectionsOf(id) == {k \in DOMAIN index : k[2] = id}
C15_EveryEntryProjected ==
    Quiescent =>
        \A k \in Entries(store) : Cardinality(ProjectionsOf(store[k].id)) = 1

\* C16: an ingestion embeds before it writes the store: no invocation that
\* still has to compute its embedding has already put its entry.
C16_EmbedBeforeStoreWrite ==
    \A r \in Reqs :
        (loc[r].handler = "ingest" /\ pc[r] = "embed") => "store" \notin Ops(r)

\* C17: the vector of a projection is the embedding of the content stored
\* for the entry of the same id.
C17_VectorOfStoredContent ==
    \A k \in DOMAIN index : \A e \in Entries(store) :
        (k[1] = "" /\ store[e].id = k[2]) =>
            index[k].values = getEmbedding(store[e].content)

\* C18: the fused list of a query is in descending order of score, holds
\* min(15, number of hits) distinct hits of the namespace results, and no hit
\* left out scores higher than the last hit kept.
Searched(r) == loc[r].handler = "ingest" /\ pc[r] \in {"q_batchget", "q_answer"}
KeyOfId(id) == CHOOSE k \in DOMAIN index : k[2] = id
ScoreOfId(r, id) == Score(loc[r].vector, index[KeyOfId(id)].values)
NamespaceHits(r) ==
    {m.id : m \in UNION {Tokens(queryPinecone(index, loc[r].vector, QueryTopK,
                                   Namespaces[i], loc[r].userId)) :
                            i \in 1..Len(Namespaces)}}
C18_FusedSortedAndCapped ==
    \A r \in Reqs :
        Searched(r) =>
            LET ids == loc[r].contextIds
                n == Cardinality(NamespaceHits(r))
            IN /\ Len(ids) = IF n < RecallCap THEN n ELSE RecallCap
               /\ Tokens(ids) \subseteq NamespaceHits(r)
               /\ Cardinality(Tokens(ids)) = Len(ids)
               /\ \A i \in 1..(Len(ids) - 1) :
                     ScoreOfId(r, ids[i]) >= ScoreOfId(r, ids[i + 1])
               /\ \A h \in NamespaceHits(r) \ Tokens(ids) :
                     ScoreOfId(r, h) <= ScoreOfId(r, ids[Len(ids)])

\* A fusion that had to reorder and to truncate: more than 15 hits, the first
\* hit of the fan-out scoring below the first of the fused list.
C18_Witness ==
    \E r \in Reqs :
        /\ Searched(r)
        /\ Cardinality(NamespaceHits(r)) > RecallCap
        /\ Len(loc[r].contextIds) = RecallCap
        /\ ScoreOfId(r, loc[r].contextIds[1]) > ScoreOfId(r, loc[r].contextIds[RecallCap])
        /\ Flat(index, loc[r].vector, loc[r].userId, 1)[1].score
              < ScoreOfId(r, loc[r].contextIds[1])

\* C19: of two hits of the fused list with equal score, the newer comes
\* first.
CreatedAtOfId(id) == index[KeyOfId(id)].metadata.createdAt
C19_TiesNewerFirst ==
    \A r \in Reqs :
        Searched(r) =>
            \A i, j \in 1..Len(loc[r].contextIds) :
                (i < j /\ ScoreOfId(r, loc[r].contextIds[i])
                            = ScoreOfId(r, loc[r].contextIds[j]))
                    => CreatedAtOfId(loc[r].contextIds[i])
                          >= CreatedAtOfId(loc[r].contextIds[j])

\* C20: a query whose fan-out had a failed namespace query still completes
\* with a success status.
C20_FailedBranchTolerated ==
    \A r \in Reqs :
        ("query_failed" \in Ops(r) /\ pc[r] = "done") => resp[r].statusCode = 200

\* C21: in the periodic recommendation job, a book or article retrieval
\* branch that fails contributes an empty result to the join and the job
\* still proceeds to synthesis.
C21_FailedRetrievalStillSynthesizes ==
    [][\A r \in Reqs :
        pc[r] = "wf_retrieve" /\ "branch_failed" \in Ops(r)'
            => pc'[r] = "wf_synth"]_vars

\* C22: every hit of the fused query result contributes its content to the
\* answer's context: taken from the projection's metadata text if it has
\* one, fetched from the store by owner and id otherwise.
C22_EveryHitContributes ==
    \A r \in Reqs :
        (loc[r].handler = "ingest" /\ pc[r] = "q_answer")
            => Tokens(loc[r].contextIds) \subseteq Tokens(loc[r].sources)

\* C23: a query that gets zero matches is not an error: its context is the
\* no-evidence case, and unless the oracle call itself fails it returns a
\* success response with an answer and an empty list of cited sources.
C23_ZeroMatchesAnswered ==
    [][\A r \in Reqs :
        /\ (QueryStep(r) /\ pc[r] = "q_search" /\ NamespaceHits(r) = {}
                /\ "query_failed" \notin Ops(r)')
            => /\ pc'[r] = "q_answer"
               /\ loc'[r].contextIds = <<>>
               /\ loc'[r].sources = <<>>
        /\ (QueryStep(r) /\ pc[r] = "q_answer" /\ loc[r].contextIds = <<>>
                /\ "answer_failed" \notin Ops(r)')
            => /\ pc'[r] = "done"
               /\ resp'[r].statusCode = 200
               /\ resp'[r].message = "Query processed"
               /\ resp'[r].answer = RagAnswer(NoContextText)
               /\ resp'[r].sources = <<>>]_vars

\* A query that found nothing has returned its answer.
C23_Witness ==
    \E r \in Reqs :
        /\ pc[r] = "done"
        /\ resp[r].statusCode = 200
        /\ resp[r].answer = RagAnswer(NoContextText)
        /\ resp[r].sources = <<>>

\* C24: the response of a failed ingestion tells 'nothing was saved' from
\* 'saved but dashboard stale': the failure of the dashboard update after
\* the entry was written and indexed is reported differently from a failure
\* that left no entry.
C24_FailureTellsWhatWasSaved ==
    \A r, q \in Reqs :
        ( /\ pc[r] = "done" /\ resp[r].statusCode = 500
          /\ {"store", "index"} \subseteq Ops(r)
          /\ pc[q] = "done" /\ resp[q].statusCode = 500
          /\ "store" \notin Ops(q) )
            => resp[r] # resp[q]

\* C25: across any sequence of rewrites by any writer, a dashboard's
\* createdAt stays the timestamp of its first generation.
C25_CreatedAtPreserved ==
    [][\A name \in DashboardNames \cup {"reading_list"} :
        (IsPresent(DashboardOf(store, name)) /\ IsPresent(DashboardOf(store', name)))
            => DashboardOf(store', name).createdAt = DashboardOf(store, name).createdAt]_vars

\* C26: on every synthesis path the oracle's wrapping is stripped before
\* the dashboard is persisted: no stored dashboard content begins or ends
\* with a code-fence marker.
C26_NoFenceInDashboard ==
    \A name \in DashboardNames \cup {"reading_list"} :
        HasContent(DashboardOf(store, name)) =>
            LET content == DashboardOf(store, name).content
            IN /\ content[1] \notin {FenceMd, Fence}
               /\ content[Len(content)] \notin {FenceMd, Fence}

\* The record the backup invocation r is at, and what the turn of the loop
\* does with it.
BackupItem(r) == loc[r].records[loc[r].at].NewImage
BackupTurn(r, op) ==
    /\ pc[r] = "b_record"
    /\ Len(log'[r]) = Len(log[r]) + 1
    /\ log'[r][Len(log'[r])].op = op
LastOp(r) == log[r][Len(log[r])]

\* C27: processing the same change-feed record twice yields the same
\* archival path and identical file content both times: each archival puts
\* exactly the record's rendering at the record's path, and when the file
\* already holds it the archive is left as it was.
C27_ReplayIsIdempotent ==
    [][\A r \in Reqs :
        BackupTurn(r, "archive") =>
            LET path == BackupPath(BackupItem(r))
                content == BackupContent(BackupItem(r))
            IN /\ DOMAIN archive' = DOMAIN archive \cup {path}
               /\ archive'[path] = content
               /\ \A p \in DOMAIN archive \ {path} : archive'[p] = archive[p]
               /\ (path \in DOMAIN archive /\ archive[path] = content)
                     => archive' = archive]_vars

\* An invocation was cut off after it had archived a record, and the next
\* invocation has archived the same record again.
C27_Witness ==
    \E r, q \in Reqs :
        /\ r # q
        /\ pc[q] = "done" /\ resp[q].message = "timed out"
        /\ log[q] # <<>> /\ LastOp(q).op = "archive"
        /\ log[r] # <<>> /\ LastOp(r).op = "archive"
        /\ LastOp(r).doc = LastOp(q).doc
        /\ LastOp(r).doc \in DOMAIN archive

\* The records of the table that the claim wants mirrored.
Mirrored(item) ==
    /\ item.type \in {"Entry", "Dashboard"}
    /\ ~SkipBackup(item)
\* C28: every inserted or modified record of type Entry or Dashboard
\* without skipBackup is eventually written to the archive, entries at
\* their date-partitioned path and each dashboard at its own fixed path:
\* once the feed is drained and no invocation runs, the archive holds the
\* rendering of each such record of the table.
C28_EveryRecordArchived ==
    (feed = <<>> /\ ~BackupRunning) =>
        \A k \in DOMAIN store :
            Mirrored(store[k]) =>
                IF store[k].type = "Entry"
                THEN /\ BackupPath(store[k]) \in DOMAIN archive
                     /\ archive[BackupPath(store[k])] = BackupContent(store[k])
                ELSE \E p \in DOMAIN archive :
                        Len(p) = 1 /\ archive[p] = store[k].content

\* C29: an archival failure on one record does not block the rest of the
\* batch: after the failure the loop goes on to the next record, and the
\* invocation returns normally after the last one.
C29_FailureDoesNotBlockBatch ==
    [][\A r \in Reqs :
        BackupTurn(r, "archive_failed") =>
            IF loc[r].at < Len(loc[r].records)
            THEN /\ pc'[r] = "b_record"
                 /\ loc'[r].records = loc[r].records
                 /\ loc'[r].at = loc[r].at + 1
            ELSE /\ pc'[r] = "done"
                 /\ resp'[r].message = "batch processed"]_vars

\* An invocation has archived a record after the archival of an earlier
\* record of its batch had failed.
C29_Witness ==
    \E r \in Reqs :
        /\ Len(log[r]) >= 2
        /\ log[r][1].op = "archive_failed"
        /\ log[r][2].op = "archive"
        /\ log[r][2].doc \in DOMAIN archive

\* C30: a record whose skipBackup flag is set is never written to the
\* archive: the handler passes over it without a write, and no file of the
\* archive is at the path of a flagged record of the table.
C30_SkipBackupNeverArchived ==
    /\ [][\A r \in Reqs :
            (pc[r] = "b_record" /\ loc'[r] # loc[r] /\ SkipBackup(BackupItem(r)))
                => (archive' = archive /\ log' = log)]_vars
    /\ [](\A k \in DOMAIN store :
            SkipBackup(store[k]) => BackupPath(store[k]) \notin DOMAIN archive)

\* The handler has passed over a flagged record and gone on with the batch.
C30_Witness ==
    \E r \in Reqs :
        /\ pc[r] = "b_record"
        /\ loc[r].at > 1
        /\ SkipBackup(loc[r].records[loc[r].at - 1].NewImage)
        /\ archive = <<>>

\* C31: two concurrent appends to one file of the archive cannot silently
\* lose an update: a put that carries a stale version token leaves the file
\* as it is and throws, and the file holds the content of every append that
\* returned.
C31_NoLostAppend ==
    /\ [][\A r \in Reqs :
            (pc[r] = "ap_put" /\ pc'[r] = "done"
                /\ loc[r].id \in DOMAIN archive
                /\ loc[r].existing.sha # ShaOf(archive[loc[r].id]))
            => (archive' = archive /\ resp'[r].statusCode = 500)]_vars
    /\ [](\A r \in Reqs :
            (pc[r] = "done" /\ resp[r].message = "appended")
                => resp[r].answer \in Tokens(archive[resp[r].id]))

\* Both invocations read the file before either wrote it; one has appended
\* and the put of the other was rejected.
C31_Witness ==
    \E r, q \in Reqs :
        /\ r # q
        /\ pc[r] = "done" /\ resp[r].message = "appended"
        /\ pc[q] = "done" /\ resp[q].error = "GitHub 409"
        /\ resp[r].answer \in Tokens(archive[resp[r].id])

\* C32: a dashboard read returns the content currently held in the store's
\* record of that dashboard; the archival mirror is never served in its
\* place.
C32_ReadServesStore ==
    [][\A r \in Reqs :
        (pc[r] = "idle" /\ pc'[r] = "done" /\ resp'[r].message = "dashboard"
            /\ HasContent(DashboardOf(store, resp'[r].id)))
        => resp'[r].answer = DashboardOf(store, resp'[r].id).content]_vars

\* C33: when no dashboard exists yet for a domain, the first synthesis in
\* that domain receives the domain's template as the current dashboard.
C33_TemplateSeedsFirstSynthesis ==
    \A r \in Reqs :
        (pc[r] = "a_synth" /\ ~IsPresent(loc[r].existing))
            => AgentCurrentContent(loc[r].handler, loc[r].existing) # <<>>

\* C34: a refresh of the biographer, which is an invocation with no new
\* entry, writes no entry and no projection: none of its steps changes the
\* index, adds an entry to the store or changes one; the only record it
\* writes is the dashboard, and the document it persists holds nothing the
\* current dashboard did not hold.
IsRefresh(r) ==
    /\ pc[r] \in {"a_recent", "a_embed", "a_upsert", "a_save", "a_recall",
                  "a_getdash", "a_synth", "a_savedash"}
    /\ loc[r].handler = "biographer"
    /\ loc[r].rawInput = ""
C34_RefreshWritesOnlyDashboard ==
    /\ [][\A r \in Reqs : (IsRefresh(r) /\ pc'[r] # pc[r]) =>
            /\ index' = index
            /\ Entries(store') = Entries(store)
            /\ \A k \in Entries(store) : store'[k] = store[k]
            /\ \A k \in DOMAIN store' :
                    (k \notin DOMAIN store \/ store'[k] # store[k])
                        => store'[k].type = "Dashboard"]_vars
    /\ [](\A r \in Reqs : IsRefresh(r) =>
            /\ Ops(r) \cap {"store", "index"} = {}
            /\ pc[r] = "a_savedash" =>
                    Tokens(loc[r].newDoc) \subseteq
                        Tokens(AgentCurrentContent("biographer", loc[r].existing)))

\* A refresh has rewritten the dashboard and returned: the life log is in
\* the store, written by an invocation that logged nothing but the dashboard.
C34_Witness ==
    \E r \in Reqs :
        /\ pc[r] = "done"
        /\ resp[r].message = "worker completed"
        /\ Ops(r) = {"dashboard"}
        /\ HasContent(DashboardOf(store, "life_log"))


\* C35: the list of recovered memories of the life log, which the prompt
\* bounds to MaxMemories items, holds at most MaxMemories items in every
\* dashboard a synthesis has produced and the worker has persisted.
C35_BoundedSection ==
    HasContent(DashboardOf(store, "life_log")) =>
        Len(Section(DashboardOf(store, "life_log").content, RecoveredMemories))
            <= MaxMemories


\* C36: a recommendation run that found no book and no article leaves the
\* reading list the store holds as it is: the step that persists skips the
\* write of the text that says nothing was found.
C36_NoResultsLeavesDashboard ==
    [][\A r \in Reqs :
          (/\ loc[r].handler = "librarian"
           /\ pc[r] \in {"wf_check", "wf_put"}
           /\ loc[r].newDoc = NoResultsText
           /\ pc'[r] # pc[r]
           /\ HasContent(DashboardOf(store, "reading_list")))
          => DashboardOf(store', "reading_list") = DashboardOf(store, "reading_list")]_vars


\* C37: the recent entries that FetchContext returned reach
\* StrategicAnalysis: when the list is not empty the state is not rejected
\* for its payload, and the queries it hands on are not the default ones.
C37_EntriesReachAnalysis ==
    [][\A r \in Reqs :
          (pc[r] = "wf_analysis" /\ loc[r].records # <<>> /\ pc'[r] # pc[r])
          => /\ pc'[r] = "done" => resp'[r].message # "States.QueryEvaluationError"
             /\ pc'[r] = "wf_retrieve" => loc'[r].contextIds # DefaultQueries]_vars


\* C38: the book a curation returns, picked by the oracle or by the
\* fallback, never carries a title of the list of past recommendations.
C38_NoPastRecommendation ==
    [][\A r \in Reqs :
          (pc[r] = "rc_curate" /\ pc'[r] = "done" /\ resp'[r].answer # NoBook)
          => ~Includes(loc[r].sources, resp'[r].answer.title)]_vars


\* C39: a legacy file has at most one entry in the store and at most one
\* projection in the index, however many times the migration has run over
\* the files.
C39_MigrationIdempotent ==
    /\ \A k1, k2 \in Entries(store) :
            store[k1].content = store[k2].content => k1 = k2
    /\ \A p1, p2 \in DOMAIN index :
            index[p1].values = index[p2].values => p1 = p2


\* C40: when the serendipity engine has picked a distant entry, the list of
\* candidates holds n >= 5 matches, the position picked is one of the lower
\* ranked half floor(n/2)..n-1 of the list, and the match at that position
\* is not the seed.
C40_DistantPickInLowerHalf ==
    \A r \in Reqs :
        pc[r] = "dr_distant" =>
            LET n == Len(loc[r].sources) IN
            /\ n >= 5
            /\ loc[r].at \in (n \div 2)..(n - 1)
            /\ loc[r].sources[loc[r].at + 1].id # loc[r].id
            /\ \A i \in 1..n : loc[r].sources[i].id # loc[r].id

\* The engine has picked the last of exactly five candidates.
C40_Witness ==
    \E r \in Reqs :
        /\ pc[r] = "dr_distant"
        /\ Len(loc[r].sources) = 5
        /\ loc[r].at = 4

====
